---- MODULE Spec2Model ----
(***************************************************************************)
(* A model of the KET-RAG engine of LegalLanguageModels:                   *)
(*   - the chunk store and embedding index  (app/ket_rag/core.py)          *)
(*   - the knowledge graph and keyword graph (app/ket_rag/corpus_builder.py)*)
(*   - case-scoped retrieval                 (app/ket_rag/case_context.py) *)
(*   - the atomic memory                     (app/ket_rag/atomic_memory.py)*)
(*                                                                         *)
(* Strings are TLA+ strings and f-strings are concatenations, so that two  *)
(* different (case_id, id) pairs can give the same key, as in Python.      *)
(* A cosine similarity dot(u,v)/(|u||v|) is kept exactly, as the record    *)
(* [dot |-> dot(u,v), sq |-> |u|^2 |v|^2]; comparisons cross-multiply.     *)
(* Chunk ids are 0-based as in the code: chunk i is chunks[i + 1].         *)
(***************************************************************************)
EXTENDS Integers, Sequences, FiniteSets, TLC

VARIABLES
    chunks,               \* KETRAG.chunks: list of {text, metadata}
    chunk_embeddings,     \* KETRAG.chunk_embeddings: one row per encoded chunk
    knowledge_graph,      \* KETRAG.knowledge_graph (nx.DiGraph)
    keyword_chunk_graph,  \* KETRAG.keyword_chunk_graph (nx.Graph), as its edge set
    customer_tree,        \* KETRAG.customer_tree (nx.DiGraph), set by build_customer_tree
    ret,                  \* what the last engine call did: returned or raised
    sections,             \* AtomicMemory.sections[...]["source_mapping"]
    content,              \* AtomicMemory.content
    source_content_mapping, \* AtomicMemory.source_content_mapping
    letter_refs_mapping,  \* AtomicMemory.letter_refs_mapping
    mret,                 \* what the last atomic-memory call did
    templates,            \* TemplateRegistry.templates
    letter_registry,      \* LetterProcessor.letter_registry
    gret,                 \* what the last registry, letter or generator call did
    llm,                  \* the call of OpenAIClient.generate_text in flight
    threads               \* where the ingestion thread and the retrieval thread are

engine_vars == <<chunks, chunk_embeddings, knowledge_graph, keyword_chunk_graph,
                 customer_tree, ret>>
memory_vars == <<sections, content, source_content_mapping, letter_refs_mapping, mret>>
generator_vars == <<templates, letter_registry, gret>>
service_vars == <<llm, threads>>
vars == <<chunks, chunk_embeddings, knowledge_graph, keyword_chunk_graph, customer_tree, ret,
          sections, content, source_content_mapping, letter_refs_mapping, mret,
          templates, letter_registry, gret, llm, threads>>

----------------------------------------------------------------------------
(* Bounds of the model *)

\* most chunks the store holds
MaxChunks == 3
\* most blank-line-delimited blocks of one ingested text
MaxBlocks == 2
\* largest top_k a retrieval is called with
MaxTopK == 2

----------------------------------------------------------------------------
(* Inputs *)

\* the value None where a string is expected
PyNone == "<None>"

\* metadata.get(key, default)
MetaGet(metadata, key, default) ==
    IF key \in DOMAIN metadata THEN metadata[key] ELSE default

\* {**metadata, **more}
Merged(metadata, more) ==
    [key \in DOMAIN metadata \cup DOMAIN more |->
        IF key \in DOMAIN more THEN more[key] ELSE metadata[key]]

\* case_id is a free string (a form field)
CaseIds == {"c1", "c1_kw_x"}

\* the metadata records documents are ingested with
Metadatas ==
    {[case_id |-> "c1", id |-> "kw_x_d"],
     [case_id |-> "c1_kw_x", id |-> "d"],
     [case_id |-> "c1_kw_x", id |-> "kw_x_d"]}

\* the metadata records of the retrieval runs: one document per case
RetrieveMetadatas == {[case_id |-> "c1", id |-> "d"], [case_id |-> "c1_kw_x", id |-> "d"]}

\* paragraphs of source text, and blocks that hold only white space
Paragraphs == {"p1", "p2", "p3"}
BlankBlocks == {""}
Blocks == Paragraphs \cup BlankBlocks

Queries == {"q1", "q2"}

\* the texts handed to process_document, as text.split('\n\n') leaves them
RECURSIVE SeqsUpTo(_, _)
SeqsUpTo(S, n) ==
    IF n = 0 THEN {<<>>}
    ELSE LET shorter == SeqsUpTo(S, n - 1)
         IN shorter \cup {Append(s, x) : s \in {t \in shorter : Len(t) = n - 1}, x \in S}

Texts == SeqsUpTo(Blocks, MaxBlocks)

\* the paragraphs of the case documents and letters sections are generated from
EvidenceTexts == {"University degree", "Expert skill", "Academic study"}

\* the queries generate_section retrieves with, for the sections it is run on
SectionQueries ==
    {"Information for background from 02_Applicant_Background",
     "Information for conclusion section",
     "Information for introduction from 01_General_Documents",
     "Information for experience from 04_NIW_Criterion_2",
     "Information for experience from 05_NIW_Criterion_3",
     "Information for expert_opinion from 06_Letters_of_Recommendation"}

\* the embedding service: a fixed, deterministic vector per text
\* cos(p1,p2) = 2/5, cos(p1,p3) = 0, cos(p2,p3) = 4/5; q2 scores p1 and p3 alike
Embedding ==
    [t \in Paragraphs \cup Queries \cup EvidenceTexts \cup SectionQueries |->
        CASE t = "p1" -> <<1, 0, 0, 0>>
          [] t = "p2" -> <<2, 4, 2, 1>>
          [] t = "p3" -> <<0, 1, 0, 0>>
          [] t = "q1" -> <<1, 0, 0, 0>>
          [] t = "q2" -> <<1, 1, 0, 0>>
          [] t = "University degree" -> <<2, 1, 0, 0>>
          [] t = "Expert skill" -> <<0, 1, 0, 0>>
          [] t = "Academic study" -> <<0, 0, 1, 0>>
          [] t \in SectionQueries -> <<1, 1, 0, 0>>]

\* the lexical tagger: the tokens of a text with part of speech and lemma
Tokens ==
    [t \in Paragraphs |->
        CASE t = "p1" -> {[text |-> "visas", pos |-> "NOUN", lemma |-> "visa"],
                          [text |-> "is", pos |-> "AUX", lemma |-> "be"]}
          [] t = "p2" -> {[text |-> "X_kw_Visa", pos |-> "PROPN", lemma |-> "X_kw_Visa"],
                          [text |-> "EB", pos |-> "PROPN", lemma |-> "EB"]}
          [] t = "p3" -> {[text |-> "granted", pos |-> "VERB", lemma |-> "grant"],
                          [text |-> "Visa", pos |-> "PROPN", lemma |-> "Visa"]}]

\* str.lower(), character by character
UpperCase == "ABCDEFGHIJKLMNOPQRSTUVWXYZ"
LowerCase == "abcdefghijklmnopqrstuvwxyz"

LowerChar(c) ==
    IF \E i \in 1..Len(UpperCase) : SubSeq(UpperCase, i, i) = c
    THEN LET i == CHOOSE k \in 1..Len(UpperCase) : SubSeq(UpperCase, k, k) = c
         IN SubSeq(LowerCase, i, i)
    ELSE c

UpperChar(c) ==
    IF \E i \in 1..Len(LowerCase) : SubSeq(LowerCase, i, i) = c
    THEN LET i == CHOOSE k \in 1..Len(LowerCase) : SubSeq(LowerCase, k, k) = c
         IN SubSeq(UpperCase, i, i)
    ELSE c

RECURSIVE lower(_)
lower(s) ==
    IF s = "" THEN "" ELSE LowerChar(SubSeq(s, 1, 1)) \o lower(SubSeq(s, 2, Len(s)))

\* the substring test  keyword in text
Contains(keyword, text) ==
    \E i \in 1..(Len(text) - Len(keyword) + 1) :
        SubSeq(text, i, i + Len(keyword) - 1) = keyword

----------------------------------------------------------------------------
(* Exact cosine similarities *)

Dot(u, v) == u[1] * v[1] + u[2] * v[2] + u[3] * v[3] + u[4] * v[4]

\* sklearn cosine_similarity of two rows
Cosine(u, v) == [dot |-> Dot(u, v), sq |-> Dot(u, u) * Dot(v, v)]

SignedSquare(x) == IF x >= 0 THEN x * x ELSE 0 - (x * x)

\* a < b for two cosines
CosLess(a, b) == SignedSquare(a.dot) * b.sq < SignedSquare(b.dot) * a.sq

\* a = b for two cosines
CosEq(a, b) == SignedSquare(a.dot) * b.sq = SignedSquare(b.dot) * a.sq

\* threshold = 0.4, as the fraction 2 / 5
ThresholdNum == 2
ThresholdDen == 5
threshold == [dot |-> ThresholdNum, sq |-> ThresholdDen * ThresholdDen]

\* weight=0.5 of an explicit edge, as the fraction 1 / 2
ExplicitNum == 1
ExplicitDen == 2
ExplicitWeight == [dot |-> ExplicitNum, sq |-> ExplicitDen * ExplicitDen]

----------------------------------------------------------------------------
(* Ingestion: KETRAG.process_document and _chunk_document *)

RECURSIVE SelectSeq2(_, _)
\* [p for p in blocks if p.strip()]
SelectSeq2(blocks, keep) ==
    IF blocks = <<>> THEN <<>>
    ELSE IF Head(blocks) \in keep
         THEN <<Head(blocks)>> \o SelectSeq2(Tail(blocks), keep)
         ELSE SelectSeq2(Tail(blocks), keep)

_chunk_document(text, metadata) ==
    LET paragraphs == SelectSeq2(text, {text[i] : i \in DOMAIN text} \ BlankBlocks)
    IN [i \in 1..Len(paragraphs) |->
           [text |-> paragraphs[i],
            metadata |-> Merged(metadata, [chunk_index |-> i - 1,
                                           paragraph_index |-> i - 1])]]

\* embedding_model.encode(chunk_texts)
encode(texts) == [i \in 1..Len(texts) |-> Embedding[texts[i]]]

\* The store after process_document. The chunks are stored before the
\* embeddings are computed: when encode raises, the except clause re-raises and
\* the chunks stay in the store.
Processed(store, text, metadata, encode_raises) ==
    LET new == _chunk_document(text, metadata)
        chunk_texts == [i \in 1..Len(new) |-> new[i].text]
    IN [chunks |-> store.chunks \o new,
        chunk_embeddings |-> IF encode_raises
                             THEN store.chunk_embeddings
                             ELSE store.chunk_embeddings \o encode(chunk_texts),
        raised |-> encode_raises]

process_document(text, metadata) ==
    \E encode_raises \in BOOLEAN :
        LET after == Processed([chunks |-> chunks, chunk_embeddings |-> chunk_embeddings],
                               text, metadata, encode_raises)
        IN /\ Len(after.chunks) <= MaxChunks
           /\ chunks' = after.chunks
           /\ chunk_embeddings' = after.chunk_embeddings
           /\ ret' = [op |-> "process_document", raised |-> after.raised]
           /\ UNCHANGED <<knowledge_graph, keyword_chunk_graph, customer_tree>>
           /\ UNCHANGED <<memory_vars, generator_vars, service_vars>>

----------------------------------------------------------------------------
(* Graph construction: CorpusBuilder._build_knowledge_graph *)

ChunkIds(cs) == 0..(Len(cs) - 1)

Min(S) == CHOOSE x \in S : \A y \in S : x <= y

\* chunk["metadata"].get("case_id", "unknown")
CaseIdOf(chunk) ==
    MetaGet(chunk.metadata, "case_id", "unknown")

\* doc_key = f"{case_id}_{doc_id}" with doc_id = chunk["metadata"].get("id", f"unknown_{i}")
DocKey(cs, i) ==
    LET chunk == cs[i + 1]
        doc_id == MetaGet(chunk.metadata, "id", "unknown_" \o ToString(i))
    IN CaseIdOf(chunk) \o "_" \o doc_id

\* document_chunks.get(doc_key, []), as the set of its chunk ids
document_chunks(cs, doc_key) == {i \in ChunkIds(cs) : DocKey(cs, i) = doc_key}

\* case_chunks[case_id], as the set of its chunk ids
case_chunks(cs, case_id) == {i \in ChunkIds(cs) : CaseIdOf(cs[i + 1]) = case_id}

RECURSIVE CaseOrder(_, _)
\* the keys of case_chunks in insertion order, from chunk i on
CaseOrder(cs, i) ==
    IF i >= Len(cs) THEN <<>>
    ELSE IF \E j \in 0..(i - 1) : CaseIdOf(cs[j + 1]) = CaseIdOf(cs[i + 1])
         THEN CaseOrder(cs, i + 1)
         ELSE <<CaseIdOf(cs[i + 1])>> \o CaseOrder(cs, i + 1)

\* case_doc_ids: the chunk["metadata"].get("id", "unknown") of the case's chunks
case_doc_ids(cs, case_id) ==
    {MetaGet(cs[i + 1].metadata, "id", "unknown") :
        i \in case_chunks(cs, case_id)}

\* the edges the document-pair loop adds for one case, both directions
\* (doc1_chunks[0] is the smallest chunk id stored under doc1_key)
ExplicitEdges(cs, case_id) ==
    {<<Min(document_chunks(cs, case_id \o "_" \o d[1])),
       Min(document_chunks(cs, case_id \o "_" \o d[2]))>> :
        d \in {p \in case_doc_ids(cs, case_id) \X case_doc_ids(cs, case_id) :
                 /\ p[1] # p[2]
                 /\ document_chunks(cs, case_id \o "_" \o p[1]) # {}
                 /\ document_chunks(cs, case_id \o "_" \o p[2]) # {}}}

\* similarity_matrix[i, j] > threshold
OverThreshold(u, v) == CosLess(threshold, Cosine(u, v))

\* the edges the similarity loop adds for one case
SimilarityEdges(cs, emb, case_id) ==
    {p \in case_chunks(cs, case_id) \X case_chunks(cs, case_id) :
        /\ p[1] # p[2]
        /\ OverThreshold(emb[p[1] + 1], emb[p[2] + 1])}

\* DiGraph.add_edge over a set of edges: an edge that exists gets the new attributes
AddExplicit(edges, new) ==
    [e \in (DOMAIN edges) \cup new |->
        IF e \in new
        THEN [edge_type |-> "same_case_explicit", weight |-> ExplicitWeight]
        ELSE edges[e]]

AddSimilarity(edges, new, emb) ==
    [e \in (DOMAIN edges) \cup new |->
        IF e \in new
        THEN [edge_type |-> "same_case_similarity",
              weight |-> Cosine(emb[e[1] + 1], emb[e[2] + 1])]
        ELSE edges[e]]

NoEdges == [e \in {} |-> [edge_type |-> "", weight |-> ExplicitWeight]]

RECURSIVE BuildCases(_, _, _, _)
\* the loop over case_chunks.items(): the edges it leaves, and whether
\* chunk_embeddings[case_indices] raised (an index past the last row)
BuildCases(order, cs, emb, edges) ==
    IF order = <<>> THEN [edges |-> edges, raised |-> FALSE]
    ELSE LET case_id == Head(order)
             case_indices == case_chunks(cs, case_id)
         IN IF Cardinality(case_indices) < 2
            THEN BuildCases(Tail(order), cs, emb, edges)
            ELSE LET explicit == AddExplicit(edges, ExplicitEdges(cs, case_id))
                 IN IF \E i \in case_indices : i >= Len(emb)
                    THEN [edges |-> explicit, raised |-> TRUE]
                    ELSE BuildCases(Tail(order), cs, emb,
                             AddSimilarity(explicit, SimilarityEdges(cs, emb, case_id), emb))

\* keywords of one chunk: lemmas of the nouns and proper nouns longer than 2
Keywords(text) ==
    {lower(token.lemma) :
        token \in {t \in Tokens[text] : t.pos \in {"NOUN", "PROPN"} /\ Len(t.text) > 2}}

\* scoped_keyword = f"case_{case_id}_kw_{keyword}"
ScopedKeyword(case_id, keyword) == "case_" \o case_id \o "_kw_" \o keyword

\* f"chunk_{i}"
ChunkNode(i) == "chunk_" \o ToString(i)

\* the keyword-chunk graph rebuilt from the chunk store
KeywordEdges(cs) ==
    UNION {{<<ScopedKeyword(CaseIdOf(cs[i + 1]), keyword), ChunkNode(i)>> :
               keyword \in Keywords(cs[i + 1].text)} : i \in ChunkIds(cs)}

_build_knowledge_graph ==
    /\ IF Len(chunks) = 0
       THEN UNCHANGED <<knowledge_graph, keyword_chunk_graph>>
       ELSE LET built == BuildCases(CaseOrder(chunks, 0), chunks, chunk_embeddings, NoEdges)
            IN IF built.raised
               THEN /\ knowledge_graph' = [nodes |-> ChunkIds(chunks),
                                           edges |-> built.edges,
                                           pagerank |-> {}]
                    /\ UNCHANGED keyword_chunk_graph
               ELSE /\ knowledge_graph' = [nodes |-> ChunkIds(chunks),
                                           edges |-> built.edges,
                                           pagerank |-> ChunkIds(chunks)]
                    /\ keyword_chunk_graph' = KeywordEdges(chunks)
    /\ ret' = [op |-> "_build_knowledge_graph",
               raised |-> Len(chunks) > 0 /\
                   BuildCases(CaseOrder(chunks, 0), chunks, chunk_embeddings, NoEdges).raised]
    /\ UNCHANGED <<chunks, chunk_embeddings, customer_tree>>
    /\ UNCHANGED <<memory_vars, generator_vars, service_vars>>

----------------------------------------------------------------------------
(* The customer tree: CorpusBuilder.build_customer_tree *)

\* a DiGraph as the attributes of its nodes and the set of its edges; before
\* the first build the engine has no tree
NoTree == [nodes |-> <<>>, edges |-> {}]

\* DiGraph.add_node(id, **attrs): an existing node keeps its other attributes
add_node(tree, id, attrs) ==
    [tree EXCEPT !.nodes =
        [n \in DOMAIN tree.nodes \cup {id} |->
            IF n # id THEN tree.nodes[n]
            ELSE IF id \in DOMAIN tree.nodes THEN Merged(tree.nodes[id], attrs)
            ELSE attrs]]

\* DiGraph.add_edge(u, v): a missing end node is added without attributes
add_edge(tree, u, v) ==
    [nodes |-> [n \in DOMAIN tree.nodes \cup {u, v} |->
                   IF n \in DOMAIN tree.nodes THEN tree.nodes[n] ELSE <<>>],
     edges |-> tree.edges \cup {<<u, v>>}]

\* the truth value of metadata.get(key)
Given(metadata, key) ==
    MetaGet(metadata, key, PyNone) # PyNone /\ metadata[key] # ""

\* f"case_{case_id}"
CaseNode(case_id) == "case_" \o case_id
\* f"case_{case_id}_visa_{visa_type}"
VisaNode(case_id, visa_type) == CaseNode(case_id) \o "_visa_" \o visa_type
\* f"case_{case_id}_visa_{visa_type}_cat_{category}"
CategoryNode(case_id, visa_type, category) ==
    VisaNode(case_id, visa_type) \o "_cat_" \o category
\* f"{category_node_id}_doc_{i}"
DocNode(case_id, visa_type, category, i) ==
    CategoryNode(case_id, visa_type, category) \o "_doc_" \o ToString(i)

\* chunk["text"][:100]
Head100(text) == IF Len(text) > 100 THEN SubSeq(text, 1, 100) ELSE text

\* the root and the case nodes: the loop over case_ids
RECURSIVE WithCases(_, _)
WithCases(tree, case_ids) ==
    IF case_ids = {} THEN tree
    ELSE LET case_id == CHOOSE c \in case_ids : TRUE
         IN WithCases(add_edge(add_node(tree, CaseNode(case_id),
                                        [node_type |-> "case", case_id |-> case_id]),
                               "root", CaseNode(case_id)),
                      case_ids \ {case_id})

\* the visa nodes: the second loop over the chunks, from chunk i on
RECURSIVE WithVisas(_, _, _)
WithVisas(tree, cs, i) ==
    IF i >= Len(cs) THEN tree
    ELSE LET metadata == cs[i + 1].metadata
         IN IF Given(metadata, "case_id") /\ Given(metadata, "visa_type")
            THEN LET case_id == metadata.case_id
                     visa_type == metadata.visa_type
                     visa_node_id == VisaNode(case_id, visa_type)
                 IN IF visa_node_id \in DOMAIN tree.nodes
                    THEN WithVisas(tree, cs, i + 1)
                    ELSE WithVisas(
                             add_edge(add_node(tree, visa_node_id,
                                               [node_type |-> "visa_type", case_id |-> case_id,
                                                visa_type |-> visa_type]),
                                      CaseNode(case_id), visa_node_id),
                             cs, i + 1)
            ELSE WithVisas(tree, cs, i + 1)

\* the category nodes: the third loop over the chunks, from chunk i on
RECURSIVE WithCategories(_, _, _)
WithCategories(tree, cs, i) ==
    IF i >= Len(cs) THEN tree
    ELSE LET metadata == cs[i + 1].metadata
         IN IF Given(metadata, "case_id") /\ Given(metadata, "visa_type")
                  /\ Given(metadata, "category")
            THEN LET case_id == metadata.case_id
                     visa_type == metadata.visa_type
                     category == metadata.category
                     visa_node_id == VisaNode(case_id, visa_type)
                     category_node_id == CategoryNode(case_id, visa_type, category)
                 IN IF category_node_id \in DOMAIN tree.nodes
                    THEN WithCategories(tree, cs, i + 1)
                    ELSE WithCategories(
                             add_edge(add_node(tree, category_node_id,
                                               [node_type |-> "category", case_id |-> case_id,
                                                visa_type |-> visa_type,
                                                category |-> category]),
                                      visa_node_id, category_node_id),
                             cs, i + 1)
            ELSE WithCategories(tree, cs, i + 1)

\* the document nodes: the fourth loop over the chunks, from chunk i on
RECURSIVE WithDocuments(_, _, _)
WithDocuments(tree, cs, i) ==
    IF i >= Len(cs) THEN tree
    ELSE LET metadata == cs[i + 1].metadata
         IN IF Given(metadata, "case_id") /\ Given(metadata, "visa_type")
                  /\ Given(metadata, "category")
            THEN LET case_id == metadata.case_id
                     visa_type == metadata.visa_type
                     category == metadata.category
                     category_node_id == CategoryNode(case_id, visa_type, category)
                     doc_node_id == DocNode(case_id, visa_type, category, i)
                 IN WithDocuments(
                        add_edge(add_node(tree, doc_node_id,
                                          [node_type |-> "document", case_id |-> case_id,
                                           visa_type |-> visa_type, category |-> category,
                                           chunk_id |-> i, text |-> Head100(cs[i + 1].text)]),
                                 category_node_id, doc_node_id),
                        cs, i + 1)
            ELSE WithDocuments(tree, cs, i + 1)

\* the tree build_customer_tree builds from the chunk store
BuiltTree(cs) ==
    LET case_ids == {cs[i + 1].metadata.case_id :
                        i \in {j \in ChunkIds(cs) : Given(cs[j + 1].metadata, "case_id")}}
        rooted == add_node(NoTree, "root", [node_type |-> "root", text |-> "All Cases"])
    IN WithDocuments(WithCategories(WithVisas(WithCases(rooted, case_ids), cs, 0), cs, 0),
                     cs, 0)

build_customer_tree ==
    /\ customer_tree' = BuiltTree(chunks)
    /\ ret' = [op |-> "build_customer_tree", raised |-> FALSE, result |-> BuiltTree(chunks)]
    /\ UNCHANGED <<chunks, chunk_embeddings, knowledge_graph, keyword_chunk_graph>>
    /\ UNCHANGED <<memory_vars, generator_vars, service_vars>>

\* the metadata records of the chunks a tree is built from: case_id, visa_type
\* and category are free strings
TreeMetadatas ==
    {[case_id |-> "c1", visa_type |-> "EB2", category |-> "cv"],
     [case_id |-> "c1_visa_EB2", visa_type |-> "EB1", category |-> "cv"],
     [case_id |-> "c2", visa_type |-> "EB2"],
     [visa_type |-> "EB2", category |-> "cv"]}

----------------------------------------------------------------------------
(* Case-scoped retrieval: CaseContext.retrieve_for_case *)

Max(a, b) == IF a >= b THEN a ELSE b

RECURSIVE Ascending(_)
\* the elements of a set of integers as an ascending list
Ascending(S) == IF S = {} THEN <<>> ELSE <<Min(S)>> \o Ascending(S \ {Min(S)})

\* [i for i, chunk in enumerate(chunks) if chunk["metadata"].get("case_id") == case_id]
case_chunk_indices(cs, case_id) ==
    Ascending({i \in ChunkIds(cs) : MetaGet(cs[i + 1].metadata, "case_id", PyNone) = case_id})

\* similarities.argsort(): a permutation of the positions that puts the scores
\* in ascending order. The default sort is not stable, so equal scores may come
\* in any order.
argsort(similarities) ==
    {perm \in [1..Len(similarities) -> 1..Len(similarities)] :
        /\ \A a, b \in 1..Len(similarities) : a # b => perm[a] # perm[b]
        /\ \A a \in 1..(Len(similarities) - 1) :
              ~CosLess(similarities[perm[a + 1]], similarities[perm[a]])}

\* a[-k:] for k >= 0: the whole list when k = 0
LastSlice(a, k) ==
    IF k = 0 THEN a ELSE SubSeq(a, Max(1, Len(a) - k + 1), Len(a))

\* a[::-1]
Reverse(a) == [i \in 1..Len(a) |-> a[Len(a) + 1 - i]]

\* list.index(x)
IndexOf(a, x) == Min({i \in 1..Len(a) : a[i] = x})

\* the result list, given the permutation argsort returned
Results(cs, emb, case_id, query, top_k, perm) ==
    LET indices == case_chunk_indices(cs, case_id)
        query_embedding == Embedding[query]
        similarities == [i \in 1..Len(indices) |->
                            Cosine(query_embedding, emb[indices[i] + 1])]
        top_indices == Reverse(LastSlice(perm, top_k))
        original_indices == [i \in 1..Len(top_indices) |-> indices[top_indices[i]]]
    IN [i \in 1..Len(original_indices) |->
           [chunk_idx |-> original_indices[i],
            text |-> cs[original_indices[i] + 1].text,
            metadata |-> cs[original_indices[i] + 1].metadata,
            score |-> similarities[top_indices[IndexOf(original_indices,
                                                       original_indices[i])]]]]

Call(case_id, query, top_k, raised, results) ==
    [op |-> "retrieve_for_case", raised |-> raised, case_id |-> case_id,
     query |-> query, top_k |-> top_k, results |-> results]

retrieve_for_case(case_id, query, top_k) ==
    LET indices == case_chunk_indices(chunks, case_id)
        similarities == [i \in 1..Len(indices) |->
                            Cosine(Embedding[query], chunk_embeddings[indices[i] + 1])]
    IN /\ \/ \* embedding_model.encode([query]) raises, before anything else
             ret' = Call(case_id, query, top_k, TRUE, <<>>)
          \/ /\ indices = <<>>
             /\ ret' = Call(case_id, query, top_k, FALSE, <<>>)
          \/ \* chunk_embeddings[case_chunk_indices] with an index past the last row
             /\ indices # <<>>
             /\ \E i \in 1..Len(indices) : indices[i] >= Len(chunk_embeddings)
             /\ ret' = Call(case_id, query, top_k, TRUE, <<>>)
          \/ /\ indices # <<>>
             /\ \A i \in 1..Len(indices) : indices[i] < Len(chunk_embeddings)
             /\ \E perm \in argsort(similarities) :
                   ret' = Call(case_id, query, top_k, FALSE,
                               Results(chunks, chunk_embeddings, case_id, query, top_k, perm))
       /\ UNCHANGED <<chunks, chunk_embeddings, knowledge_graph, keyword_chunk_graph,
                       customer_tree>>
       /\ UNCHANGED <<memory_vars, generator_vars, service_vars>>

----------------------------------------------------------------------------
(* Ingestion, graph construction and retrieval in two threads. No call takes
   a lock: the steps below are the reads and writes of the shared engine
   between which the other thread may run. *)

\* no thread is inside a call
NoThreads == [ingest |-> [pc |-> "idle"], retrieve |-> [pc |-> "idle"]]

\* process_document up to self.chunks.extend(chunks)
ingest_extend(text, metadata) ==
    LET new == _chunk_document(text, metadata)
    IN /\ threads.ingest.pc = "idle"
       /\ Len(chunks) + Len(new) <= MaxChunks
       /\ chunks' = chunks \o new
       /\ threads' = [threads EXCEPT !.ingest =
                         [pc |-> "encode",
                          chunk_texts |-> [i \in 1..Len(new) |-> new[i].text]]]
       /\ UNCHANGED <<chunk_embeddings, knowledge_graph, keyword_chunk_graph,
                       customer_tree, ret, llm>>
       /\ UNCHANGED <<memory_vars, generator_vars>>

\* process_document from embedding_model.encode to its return or its raise
ingest_store ==
    /\ threads.ingest.pc = "encode"
    /\ \E encode_raises \in BOOLEAN :
          /\ chunk_embeddings' = IF encode_raises THEN chunk_embeddings
                                 ELSE chunk_embeddings \o encode(threads.ingest.chunk_texts)
          /\ ret' = [op |-> "process_document", raised |-> encode_raises]
    /\ threads' = [threads EXCEPT !.ingest = [pc |-> "idle"]]
    /\ UNCHANGED <<chunks, knowledge_graph, keyword_chunk_graph, customer_tree, llm>>
    /\ UNCHANGED <<memory_vars, generator_vars>>

\* _build_knowledge_graph up to knowledge_graph.clear()
build_clear ==
    /\ threads.ingest.pc = "idle"
    /\ Len(chunks) > 0
    /\ knowledge_graph' = [nodes |-> {}, edges |-> NoEdges, pagerank |-> {}]
    /\ threads' = [threads EXCEPT !.ingest = [pc |-> "nodes"]]
    /\ UNCHANGED <<chunks, chunk_embeddings, keyword_chunk_graph, customer_tree, ret, llm>>
    /\ UNCHANGED <<memory_vars, generator_vars>>

\* the loop of add_node
build_nodes ==
    /\ threads.ingest.pc = "nodes"
    /\ knowledge_graph' = [knowledge_graph EXCEPT !.nodes = ChunkIds(chunks)]
    /\ threads' = [threads EXCEPT !.ingest = [pc |-> "edges"]]
    /\ UNCHANGED <<chunks, chunk_embeddings, keyword_chunk_graph, customer_tree, ret, llm>>
    /\ UNCHANGED <<memory_vars, generator_vars>>

\* the loop over the cases, which adds the edges or raises
build_edges ==
    /\ threads.ingest.pc = "edges"
    /\ LET built == BuildCases(CaseOrder(chunks, 0), chunks, chunk_embeddings, NoEdges)
       IN /\ knowledge_graph' = [knowledge_graph EXCEPT !.edges = built.edges]
          /\ IF built.raised
             THEN /\ ret' = [op |-> "_build_knowledge_graph", raised |-> TRUE]
                  /\ threads' = [threads EXCEPT !.ingest = [pc |-> "idle"]]
             ELSE /\ UNCHANGED ret
                  /\ threads' = [threads EXCEPT !.ingest = [pc |-> "pagerank"]]
    /\ UNCHANGED <<chunks, chunk_embeddings, keyword_chunk_graph, customer_tree, llm>>
    /\ UNCHANGED <<memory_vars, generator_vars>>

\* nx.pagerank and the loop that stores the scores
build_pagerank ==
    /\ threads.ingest.pc = "pagerank"
    /\ knowledge_graph' = [knowledge_graph EXCEPT !.pagerank = knowledge_graph.nodes]
    /\ threads' = [threads EXCEPT !.ingest = [pc |-> "keywords"]]
    /\ UNCHANGED <<chunks, chunk_embeddings, keyword_chunk_graph, customer_tree, ret, llm>>
    /\ UNCHANGED <<memory_vars, generator_vars>>

\* keyword_chunk_graph.clear() and the loop that rebuilds it
build_keywords ==
    /\ threads.ingest.pc = "keywords"
    /\ keyword_chunk_graph' = KeywordEdges(chunks)
    /\ ret' = [op |-> "_build_knowledge_graph", raised |-> FALSE]
    /\ threads' = [threads EXCEPT !.ingest = [pc |-> "idle"]]
    /\ UNCHANGED <<chunks, chunk_embeddings, knowledge_graph, customer_tree, llm>>
    /\ UNCHANGED <<memory_vars, generator_vars>>

\* retrieve_for_case up to case_chunk_indices, read from the chunk store
retrieve_filter(case_id, query, top_k) ==
    /\ threads.retrieve.pc = "idle"
    /\ LET indices == case_chunk_indices(chunks, case_id)
       IN IF indices = <<>>
          THEN /\ ret' = Call(case_id, query, top_k, FALSE, <<>>)
               /\ threads' = [threads EXCEPT !.retrieve = [pc |-> "returned"]]
          ELSE /\ UNCHANGED ret
               /\ threads' = [threads EXCEPT !.retrieve =
                                 [pc |-> "filtered", case_id |-> case_id, query |-> query,
                                  top_k |-> top_k, indices |-> indices,
                                  stored |-> Len(chunks)]]
    /\ UNCHANGED <<chunks, chunk_embeddings, knowledge_graph, keyword_chunk_graph,
                    customer_tree, llm>>
    /\ UNCHANGED <<memory_vars, generator_vars>>

\* retrieve_for_case from chunk_embeddings[case_chunk_indices], read from the
\* embedding index, to its return or its raise
retrieve_rank ==
    /\ threads.retrieve.pc = "filtered"
    /\ LET call == threads.retrieve
           indices == call.indices
           seen == SubSeq(chunks, 1, call.stored)
           similarities == [i \in 1..Len(indices) |->
                               Cosine(Embedding[call.query], chunk_embeddings[indices[i] + 1])]
       IN \/ /\ \E i \in 1..Len(indices) : indices[i] >= Len(chunk_embeddings)
             /\ ret' = Call(call.case_id, call.query, call.top_k, TRUE, <<>>)
          \/ /\ \A i \in 1..Len(indices) : indices[i] < Len(chunk_embeddings)
             /\ \E perm \in argsort(similarities) :
                   ret' = Call(call.case_id, call.query, call.top_k, FALSE,
                               Results(seen, chunk_embeddings, call.case_id, call.query,
                                       call.top_k, perm))
    /\ threads' = [threads EXCEPT !.retrieve = [pc |-> "returned"]]
    /\ UNCHANGED <<chunks, chunk_embeddings, knowledge_graph, keyword_chunk_graph,
                    customer_tree, llm>>
    /\ UNCHANGED <<memory_vars, generator_vars>>

\* the retrieval thread gets its next request
retrieve_next ==
    /\ threads.retrieve.pc = "returned"
    /\ threads' = [threads EXCEPT !.retrieve = [pc |-> "idle"]]
    /\ UNCHANGED llm
    /\ UNCHANGED <<engine_vars, memory_vars, generator_vars>>

----------------------------------------------------------------------------
(* The atomic memory *)

MaxEvidence == 2
MaxMappedSections == 1
MaxSources == 1
MaxRefs == 1

\* an optional list argument: None when omitted, Some(list) when given
None == <<>>
Some(list) == <<list>>

\* the truth value Python gives an optional list: None and [] are false
Truthy(optional) == optional # None /\ optional[1] # <<>>

\* a dict the code iterates: its entries in insertion order
Entry(k, v) == [key |-> k, value |-> v]
Keys(d) == {d[i].key : i \in DOMAIN d}
Get(d, k, default) ==
    IF k \in Keys(d) THEN d[CHOOSE i \in DOMAIN d : d[i].key = k].value ELSE default
Put(d, k, v) ==
    IF k \in Keys(d)
    THEN [i \in DOMAIN d |-> IF d[i].key = k THEN Entry(k, v) ELSE d[i]]
    ELSE Append(d, Entry(k, v))

Range(seq) == {seq[i] : i \in DOMAIN seq}

SectionNames ==
    {"background", "experience", "expert_opinion", "introduction", "achievements",
     "national_interest", "conclusion"}

required_sources ==
    [s \in SectionNames |->
        CASE s = "background" -> <<"CV", "Degree Certificates">>
          [] s = "experience" -> <<"Work Declarations", "Recommendation Letters">>
          [] s = "expert_opinion" -> <<"Opinion PDF">>
          [] s = "introduction" -> <<>>
          [] s = "achievements" -> <<"Awards", "Publications", "Recognition">>
          [] s = "national_interest" -> <<"Impact Statements", "Field Evidence">>
          [] s = "conclusion" -> <<>>]

primary_categories ==
    [s \in SectionNames |->
        CASE s = "background" -> <<"02_Applicant_Background">>
          [] s = "experience" -> <<"04_NIW_Criterion_2", "05_NIW_Criterion_3">>
          [] s = "expert_opinion" -> <<"06_Letters_of_Recommendation">>
          [] s = "introduction" -> <<"01_General_Documents">>
          [] s = "achievements" ->
                <<"03_NIW_Criterion_1_Significant_Merit_and_Importance">>
          [] s = "national_interest" ->
                <<"03_NIW_Criterion_1_Significant_Merit_and_Importance",
                  "05_NIW_Criterion_3_Benefit_to_USA_Without_Labor_Certification">>
          [] s = "conclusion" -> <<>>]

template_parts ==
    [s \in SectionNames |->
        CASE s = "background" -> <<"education", "skills", "certifications">>
          [] s = "experience" -> <<"work_history", "achievements", "impact">>
          [] s = "expert_opinion" -> <<"credentials", "evaluation", "recommendation">>
          [] s = "introduction" -> <<"opening", "applicant_intro">>
          [] s = "achievements" -> <<"awards", "recognition", "contributions">>
          [] s = "national_interest" -> <<"merit", "positioning", "waiver_justification">>
          [] s = "conclusion" -> <<"summary", "recommendation">>]

\* the keyword table of map_chunks_to_parts
keywords ==
    [part \in {"education", "skills", "certifications", "work_history", "achievements",
               "impact", "credentials", "evaluation", "recommendation", "opening",
               "applicant_intro", "awards", "recognition", "contributions", "merit",
               "positioning", "waiver_justification", "summary"} |->
        CASE part = "education" -> <<"degree", "university", "education", "academic", "study">>
          [] part = "skills" -> <<"skill", "expertise", "proficient", "knowledge", "ability">>
          [] part = "certifications" -> <<"certif", "license", "credential", "qualification">>
          [] part = "work_history" -> <<"work", "job", "position", "employed", "career">>
          [] part = "achievements" ->
                <<"achieve", "accomplish", "success", "award", "recognition">>
          [] part = "impact" -> <<"impact", "contribut", "influence", "effect", "result">>
          [] part = "credentials" -> <<"credential", "qualification", "background", "expert">>
          [] part = "evaluation" -> <<"evaluat", "assess", "review", "analysis">>
          [] part = "recommendation" -> <<"recommend", "endorse", "support", "advocate">>
          [] part = "opening" -> <<"write", "support", "petition", "behalf">>
          [] part = "applicant_intro" -> <<"applicant", "field", "background", "introduce">>
          [] part = "awards" -> <<"award", "prize", "medal", "honor", "grant">>
          [] part = "recognition" ->
                <<"recognized", "acknowledged", "distinguished", "reputation">>
          [] part = "contributions" ->
                <<"contribut", "develop", "research", "advance", "innovat">>
          [] part = "merit" -> <<"merit", "importance", "significant", "substantial", "value">>
          [] part = "positioning" ->
                <<"position", "advance", "qualification", "background", "unique">>
          [] part = "waiver_justification" ->
                <<"waiver", "benefit", "interest", "advantage", "important">>
          [] part = "summary" -> <<"summary", "conclude", "therefore", "thus", "finally">>]

\* the evidence chunks handed to the memory, as a retrieval returns them
EvidenceChunks ==
    {[chunk_idx |-> 0, text |-> "Hello."],
     [chunk_idx |-> 1, text |-> "Significant AWARD field: recommend Degree"]}

EvidenceLists == SeqsUpTo(EvidenceChunks, MaxEvidence)

\* the section names handed to map_chunks_to_parts: the known ones and another
MappedSectionNames == SectionNames \cup {"cover_page"}

\* some keyword of the part occurs in the lower-cased text of the chunk
KeywordMatch(part, chunk) ==
    LET text == lower(chunk.text)
    IN \E k \in 1..Len(keywords[part]) : Contains(keywords[part][k], text)

\* KeywordMatch on the evidence chunks, evaluated once per part
MatchingChunks ==
    [part \in DOMAIN keywords |-> {chunk \in EvidenceChunks : KeywordMatch(part, chunk)}]

\* the chunks of the list that the keyword loop appends to a part
MatchedChunks(part, evidence) ==
    IF part \in DOMAIN keywords
    THEN LET Matches(chunk) == chunk \in MatchingChunks[part]
         IN SelectSeq(evidence, Matches)
    ELSE <<>>

\* a fallback that takes the last chunk of the list instead of the first
WithFallback_LastChunk(part_chunks, evidence) ==
    IF part_chunks = <<>> /\ evidence # <<>> THEN <<evidence[Len(evidence)]>> ELSE part_chunks

\* the fallback: a part left empty takes the first chunk of a non-empty list
WithFallback(part_chunks, evidence) ==
    IF part_chunks = <<>> /\ evidence # <<>> THEN <<evidence[1]>> ELSE part_chunks

map_chunks_to_parts(section_name, evidence) ==
    /\ IF section_name \notin DOMAIN sections
       THEN /\ UNCHANGED sections
            /\ mret' = [op |-> "map_chunks_to_parts", section_name |-> section_name,
                        chunks |-> evidence, result |-> <<>>]
       ELSE LET section == sections[section_name]
                mapping == [part \in Range(section.template_parts) |->
                               WithFallback(MatchedChunks(part, evidence), evidence)]
            IN /\ Cardinality({s \in DOMAIN sections :
                                  DOMAIN sections[s].source_mapping # {}}
                              \cup {section_name}) <= MaxMappedSections
               /\ sections' = [sections EXCEPT ![section_name].source_mapping = mapping]
               /\ mret' = [op |-> "map_chunks_to_parts", section_name |-> section_name,
                           chunks |-> evidence, result |-> mapping]
    /\ UNCHANGED <<content, source_content_mapping, letter_refs_mapping>>
    /\ UNCHANGED <<engine_vars, generator_vars, service_vars>>

\* the key of a (section, field) pair in the two tracking maps
FieldKey(section_name, field_name) == section_name \o "." \o field_name

\* content after  self.content[section_name][field_name] = content
StoredContent(stored, section_name, field_name, new_content) ==
    Put(stored, section_name, Put(Get(stored, section_name, <<>>), field_name, new_content))

\* a tracking map after  if chunks: mapping[key] = chunks
Tracked(mapping, section_name, field_name, optional) ==
    IF Truthy(optional)
    THEN Put(mapping, FieldKey(section_name, field_name), optional[1])
    ELSE mapping

add_section_data(section_name, field_name, new_content, source_chunks, letter_refs) ==
    /\ content' = StoredContent(content, section_name, field_name, new_content)
    /\ source_content_mapping' =
          Tracked(source_content_mapping, section_name, field_name, source_chunks)
    /\ letter_refs_mapping' =
          Tracked(letter_refs_mapping, section_name, field_name, letter_refs)
    /\ mret' = [op |-> "add_section_data", section_name |-> section_name,
                field_name |-> field_name, content |-> new_content,
                source_chunks |-> source_chunks, letter_refs |-> letter_refs]
    /\ UNCHANGED sections
    /\ UNCHANGED <<engine_vars, generator_vars, service_vars>>

\* field_name = "" stands for an omitted field
get_section_data(section_name, field_name) ==
    IF section_name \notin Keys(content) THEN PyNone
    ELSE IF field_name # "" THEN Get(Get(content, section_name, <<>>), field_name, PyNone)
    ELSE Get(content, section_name, <<>>)

StartsWith(s, prefix) == Len(prefix) <= Len(s) /\ SubSeq(s, 1, Len(prefix)) = prefix

\* the lists of the entries whose key starts with the prefix, joined in dict order
RECURSIVE ExtendAll(_, _)
ExtendAll(mapping, prefix) ==
    IF mapping = <<>> THEN <<>>
    ELSE (IF StartsWith(Head(mapping).key, prefix) THEN Head(mapping).value ELSE <<>>)
         \o ExtendAll(Tail(mapping), prefix)

\* what both getters return from their mapping; field_name = "" stands for an
\* omitted field
Traced(mapping, section_name, field_name) ==
    IF field_name # ""
    THEN Get(mapping, FieldKey(section_name, field_name), <<>>)
    ELSE ExtendAll(mapping, section_name \o ".")

get_sources(section_name, field_name) ==
    Traced(source_content_mapping, section_name, field_name)

get_letter_references(section_name, field_name) ==
    Traced(letter_refs_mapping, section_name, field_name)

\* str.replace(old, new) for a non-empty old: left to right, without overlap
RECURSIVE replace(_, _, _)
replace(s, old, new) ==
    IF Len(s) < Len(old) THEN s
    ELSE IF SubSeq(s, 1, Len(old)) = old
         THEN new \o replace(SubSeq(s, Len(old) + 1, Len(s)), old, new)
         ELSE SubSeq(s, 1, 1) \o replace(SubSeq(s, 2, Len(s)), old, new)

\* dict.update(other): the entries of other put one by one
RECURSIVE update(_, _)
update(d, other) ==
    IF other = <<>> THEN d
    ELSE update(Put(d, Head(other).key, Head(other).value), Tail(other))

\* data after the loop  for section, fields in self.content.items(): data.update(fields)
RECURSIVE Flatten(_)
Flatten(stored) ==
    IF stored = <<>> THEN <<>>
    ELSE update(Flatten(SubSeq(stored, 1, Len(stored) - 1)), stored[Len(stored)].value)

\* the flattened data of fill_template; an absent or empty additional_fields is <<>>
FillData(stored, additional_fields) == update(Flatten(stored), additional_fields)

\* the loop  for key, value in data.items(): result = result.replace("{{" + key + "}}", str(value))
\* (the stored values are strings, which str() returns as they are)
RECURSIVE ReplaceAll(_, _)
ReplaceAll(result, data) ==
    IF data = <<>> THEN result
    ELSE ReplaceAll(replace(result, "{{" \o Head(data).key \o "}}", Head(data).value),
                    Tail(data))

fill_template(template, additional_fields) ==
    /\ mret' = [op |-> "fill_template", template |-> template,
                additional_fields |-> additional_fields,
                result |-> ReplaceAll(template, FillData(content, additional_fields))]
    /\ UNCHANGED <<sections, content, source_content_mapping, letter_refs_mapping>>
    /\ UNCHANGED <<engine_vars, generator_vars, service_vars>>

\* the inputs of fill_template, and the sections written before it
FillSections == {"background", "experience"}
FillTemplates == {"{{education}}", "{{name}}: {{education}}, {{skills}}"}
FillContents == {"MSc", "see {{skills}}"}
AdditionalFields ==
    {<<>>, <<Entry("name", "Ann")>>, <<Entry("skills", "extra")>>}

\* the inputs of add_section_data
MemorySections == {"background"}
MemoryFields == {"education", "skills"}
Contents == {"text A", "text B"}
Exemplars == {[chunk_id |-> 2, text |-> "Exemplar."]}
OptionalLists(S, n) == {None} \cup {Some(list) : list \in SeqsUpTo(S, n)}

\* pairs of a section name and a part name, some with a dot in them
DottedNames ==
    {<<"background", "degree">>, <<"background", "education.degree">>,
     <<"background.education", "degree">>}

----------------------------------------------------------------------------
(* The template registry: TemplateRegistry *)

\* the wildcard of a template key
ANY == "ANY"

\* the default templates by (profession, section)
_default_profession_templates ==
    (<<"engineer", "background">> :>
        "\n                {name} holds a {degree} in {field} from {university}.\n                Their academic background has provided them with expertise in {expertise_areas}.\n                "
     @@ <<"engineer", "experience">> :>
        "\n                {name} has {years} years of experience in {industry}.\n                Their key accomplishments include {accomplishments}.\n                "
     @@ <<"engineer", "expert_opinion">> :>
        "\n                Based on {name}'s credentials, they demonstrate exceptional ability in {field}.\n                Their work on {projects} has significant implications for {impact_areas}.\n                "
     @@ <<"medical", "background">> :>
        "\n                Dr. {name} completed their medical education at {university},\n                specializing in {specialty}. Their academic training included {training_details}.\n                "
     @@ <<"medical", "experience">> :>
        "\n                Dr. {name} has practiced medicine for {years} years,\n                with particular focus on {focus_areas}.\n                Their clinical work has included {clinical_experience}.\n                "
     @@ <<"medical", "expert_opinion">> :>
        "\n                Based on Dr. {name}'s extensive experience in {specialty},\n                they have demonstrated exceptional ability through {achievements}.\n                Their research on {research_topics} has advanced the field of {field}.\n                ")

\* the default templates by (visa type, section)
_default_visa_templates ==
    (<<"EB1", "introduction">> :>
        "\n                I am writing in strong support of {{applicant_name}}'s petition for classification as an Alien of Extraordinary Ability in the field of {{field}}. \n                After reviewing {{applicant_name}}'s credentials and achievements in detail, I can confidently state that {{he_she}} meets the criteria for this classification.\n                "
     @@ <<"EB1", "achievements">> :>
        "\n                {{applicant_name}} has demonstrated extraordinary ability through {{achievements_overview}}.\n                \n                {{key_achievements}}\n                \n                These accomplishments clearly demonstrate that {{applicant_name}} has risen to the very top of {{his_her}} field of endeavor.\n                "
     @@ <<"EB1", "conclusion">> :>
        "\n                Based on the evidence presented, it is my professional opinion that {{applicant_name}} clearly meets the criteria for classification as an alien of extraordinary ability.\n                \n                {{final_recommendation}}\n                \n                I strongly recommend that USCIS approve this petition.\n                "
     @@ <<"EB2", "introduction">> :>
        "\n                I am writing in support of {{applicant_name}}'s petition for an employment-based immigrant visa with a National Interest Waiver.\n                As an expert in {{field}}, I am well-qualified to evaluate {{applicant_name}}'s contributions and their importance to the United States.\n                "
     @@ <<"EB2", "national_interest">> :>
        "\n                {{applicant_name}}'s work is of substantial merit and national importance because {{national_importance_rationale}}.\n                \n                {{applicant_name}} is well positioned to advance the proposed endeavor, as evidenced by {{positioning_evidence}}.\n                \n                On balance, it would be beneficial to the United States to waive the requirements of a job offer and labor certification because {{waiver_justification}}.\n                "
     @@ <<"EB2", "conclusion">> :>
        "\n                In conclusion, {{applicant_name}} clearly qualifies for the National Interest Waiver based on {{conclusion_summary}}.\n                \n                {{final_recommendation}}\n                \n                I strongly recommend that USCIS approve this petition with a National Interest Waiver.\n                ")

\* self.templates[(profession, visa_type, section)] = template
AddedTemplate(registry, profession, visa_type, section, template) ==
    [key \in DOMAIN registry \cup {<<profession, visa_type, section>>} |->
        IF key = <<profession, visa_type, section>> THEN template ELSE registry[key]]

\* the registry after  for ... in defaults: self.add_template(...)
RECURSIVE AddedAll(_, _, _)
AddedAll(registry, defaults, profession_based) ==
    IF DOMAIN defaults = {} THEN registry
    ELSE LET k == CHOOSE key \in DOMAIN defaults : TRUE
             rest == [key \in DOMAIN defaults \ {k} |-> defaults[key]]
         IN AddedAll(IF profession_based
                     THEN AddedTemplate(registry, k[1], ANY, k[2], defaults[k])
                     ELSE AddedTemplate(registry, ANY, k[1], k[2], defaults[k]),
                     rest, profession_based)

\* the registry after __init__
_initialize_default_templates ==
    AddedAll(AddedAll(<<>>, _default_profession_templates, TRUE),
             _default_visa_templates, FALSE)

\* a resolution that tries the visa key before the profession key
ResolvedTemplate_VisaFirst(registry, profession, visa_type, section) ==
    LET exact_key == <<profession, visa_type, section>>
        profession_key == <<profession, ANY, section>>
        visa_key == <<ANY, visa_type, section>>
    IN IF exact_key \in DOMAIN registry THEN registry[exact_key]
       ELSE IF visa_key \in DOMAIN registry THEN registry[visa_key]
       ELSE IF profession_key \in DOMAIN registry THEN registry[profession_key]
       ELSE ""

\* the template get_template resolves
ResolvedTemplate(registry, profession, visa_type, section) ==
    LET exact_key == <<profession, visa_type, section>>
        profession_key == <<profession, ANY, section>>
        visa_key == <<ANY, visa_type, section>>
    IN IF exact_key \in DOMAIN registry THEN registry[exact_key]
       ELSE IF profession_key \in DOMAIN registry THEN registry[profession_key]
       ELSE IF visa_key \in DOMAIN registry THEN registry[visa_key]
       ELSE ""

add_template(profession, visa_type, section, template) ==
    /\ templates' = AddedTemplate(templates, profession, visa_type, section, template)
    /\ gret' = [op |-> "add_template", profession |-> profession, visa_type |-> visa_type,
                section |-> section, template |-> template]
    /\ UNCHANGED letter_registry
    /\ UNCHANGED <<engine_vars, memory_vars, service_vars>>

get_template(profession, visa_type, section) ==
    /\ gret' = [op |-> "get_template", profession |-> profession, visa_type |-> visa_type,
                section |-> section,
                result |-> ResolvedTemplate(templates, profession, visa_type, section)]
    /\ UNCHANGED <<templates, letter_registry>>
    /\ UNCHANGED <<engine_vars, memory_vars, service_vars>>

\* the printable characters in code point order: from the space (32) to the
\* underscore (95), and from "a" (97) to the tilde (126)
CodePoints ==
    " !\"#$%&'()*+,-./0123456789:;<=>?@" \o UpperCase \o "[\\]^_"
HighCodePoints == LowerCase \o "{|}~"

\* ord(c)
Ord(c) ==
    IF \E i \in 1..Len(CodePoints) : SubSeq(CodePoints, i, i) = c
    THEN 31 + (CHOOSE i \in 1..Len(CodePoints) : SubSeq(CodePoints, i, i) = c)
    ELSE 96 + (CHOOSE i \in 1..Len(HighCodePoints) : SubSeq(HighCodePoints, i, i) = c)

\* a < b  on str: by code points, a proper prefix first
RECURSIVE StrLess(_, _)
StrLess(a, b) ==
    IF b = "" THEN FALSE
    ELSE IF a = "" THEN TRUE
    ELSE IF SubSeq(a, 1, 1) # SubSeq(b, 1, 1)
         THEN Ord(SubSeq(a, 1, 1)) < Ord(SubSeq(b, 1, 1))
         ELSE StrLess(SubSeq(a, 2, Len(a)), SubSeq(b, 2, Len(b)))

\* sorted(list(S)) for a set of str
sorted(S) ==
    [i \in 1..Cardinality(S) |->
        CHOOSE s \in S : Cardinality({t \in S : StrLess(t, s)}) = i - 1]

\* sorted(S) taken backwards
sorted_Descending(S) ==
    [i \in 1..Cardinality(S) |->
        CHOOSE s \in S : Cardinality({t \in S : StrLess(s, t)}) = i - 1]

\* the sections get_sections lists
ListedSections(registry, profession, visa_type) ==
    sorted({key[3] : key \in {k \in DOMAIN registry :
                                 /\ (k[1] = profession \/ k[1] = ANY)
                                 /\ (k[2] = visa_type \/ k[2] = ANY)}})

get_sections(profession, visa_type) ==
    /\ gret' = [op |-> "get_sections", profession |-> profession, visa_type |-> visa_type,
                result |-> ListedSections(templates, profession, visa_type)]
    /\ UNCHANGED <<templates, letter_registry>>
    /\ UNCHANGED <<engine_vars, memory_vars, service_vars>>

\* the inputs of the registry calls
Professions == {"engineer", "nurse", ANY}
VisaTypes == {"EB2", "O1", ANY}
RegistrySections == {"background", "conclusion"}
\* the keys add_template registers under, and the templates it registers
AddedProfessions == {"engineer", ANY}
AddedVisaTypes == {"EB2", ANY}
AddedSections == {"background"}
AddedTemplates == {"", "{education} {skills}"}

----------------------------------------------------------------------------
(* The generation service: OpenAIClient *)

\* stop=stop_after_attempt(3)
StopAfterAttempt == 3

\* a stop rule that allows one attempt more
stop_after_attempt_OneMore(attempt_number) == attempt_number >= StopAfterAttempt + 1

\* the retry stops after this attempt
stop_after_attempt(attempt_number) == attempt_number >= StopAfterAttempt

\* how one attempt of chat_completion ends: with a well-formed response, with
\* a response without "choices", or with an exception of post,
\* raise_for_status or json
Failures == {"HTTPStatusError", "TimeoutException", "JSONDecodeError"}
Outcomes == {"ok", "no choices"} \cup Failures

\* the prompts, and the content of a well-formed response
Prompts == {"prompt A", "prompt B"}
ResponseContents == {"reply A", "reply B"}

\* no call in flight
Idle == [pc |-> "idle", prompt |-> "", attempts |-> <<>>, raised |-> FALSE, result |-> PyNone]

\* f"Error generating response: {str(e)}"
ErrorText(e) == "Error generating response: " \o e

\* str(e) of the RetryError the last failed attempt ends in (without the
\* address of the future)
RetryError(failure) == "RetryError[<Future state=finished raised " \o failure \o ">]"

\* generate_text up to its first attempt of chat_completion
generate_text(prompt) ==
    /\ llm.pc \in {"idle", "done"}
    /\ llm' = [Idle EXCEPT !.pc = "attempt", !.prompt = prompt]
    /\ UNCHANGED threads
    /\ UNCHANGED <<engine_vars, memory_vars, generator_vars>>

\* one attempt of chat_completion under @retry, and what generate_text does
\* with a response, or with the RetryError after the last attempt
chat_completion ==
    /\ llm.pc = "attempt"
    /\ \E outcome \in Outcomes, reply \in ResponseContents :
          LET attempts == Append(llm.attempts, outcome)
          IN llm' =
                IF outcome = "ok"
                THEN [llm EXCEPT !.pc = "done", !.attempts = attempts, !.result = reply]
                ELSE IF outcome = "no choices"
                THEN [llm EXCEPT !.pc = "done", !.attempts = attempts,
                                 !.result = ErrorText("'choices'")]
                ELSE IF stop_after_attempt(Len(attempts))
                THEN [llm EXCEPT !.pc = "done", !.attempts = attempts,
                                 !.result = ErrorText(RetryError(outcome))]
                ELSE [llm EXCEPT !.pc = "wait", !.attempts = attempts]
    /\ UNCHANGED threads
    /\ UNCHANGED <<engine_vars, memory_vars, generator_vars>>

\* the sleep between two attempts: wait=wait_exponential(multiplier=1, min=2, max=10)
wait_exponential ==
    /\ llm.pc = "wait"
    /\ llm' = [llm EXCEPT !.pc = "attempt"]
    /\ UNCHANGED threads
    /\ UNCHANGED <<engine_vars, memory_vars, generator_vars>>

----------------------------------------------------------------------------
(* Exemplar letters: LetterProcessor *)

\* the metadata process_document gets for a letter, or for one of its sections
LetterTags(metadata) ==
    Merged(metadata, [document_type |-> "successful_letter", is_letter_example |-> TRUE])
SectionTags(metadata, section_id) ==
    Merged(metadata, [document_type |-> "successful_letter", is_letter_example |-> TRUE,
                      section_id |-> section_id])

\* the loop over sections.items(); the call numbered fail_at raises and ends it
RECURSIVE ProcessedSections(_, _, _, _, _)
ProcessedSections(store, letter_sections, metadata, i, fail_at) ==
    IF i > Len(letter_sections)
    THEN [chunks |-> store.chunks, chunk_embeddings |-> store.chunk_embeddings,
          raised |-> FALSE]
    ELSE LET after == Processed(store, letter_sections[i].value,
                                SectionTags(metadata, letter_sections[i].key),
                                i = fail_at)
         IN IF after.raised THEN after
            ELSE ProcessedSections(after, letter_sections, metadata, i + 1, fail_at)

\* sections omitted (None) or empty is <<>>; uuid is the id uuid4 draws, new to
\* the registry, used when the metadata carries no letter_id; fail_at = 0 when no
\* process_document call raises
process_letter(letter_text, metadata, letter_sections, uuid, fail_at) ==
    LET letter_id == MetaGet(metadata, "letter_id", uuid)
        stored == Merged(metadata, [letter_id |-> letter_id])
        store == [chunks |-> chunks, chunk_embeddings |-> chunk_embeddings]
        after == IF letter_sections = <<>>
                 THEN Processed(store, letter_text, LetterTags(stored), fail_at = 1)
                 ELSE ProcessedSections(store, letter_sections, stored, 1, fail_at)
    IN /\ "letter_id" \notin DOMAIN metadata => uuid \notin Keys(letter_registry)
       /\ fail_at <= (IF letter_sections = <<>> THEN 1 ELSE Len(letter_sections))
       /\ Len(after.chunks) <= MaxChunks
       /\ letter_registry' = Put(letter_registry, letter_id, stored)
       /\ chunks' = after.chunks
       /\ chunk_embeddings' = after.chunk_embeddings
       /\ ret' = [op |-> "process_document", raised |-> after.raised]
       /\ gret' = [op |-> "process_letter", letter_text |-> letter_text,
                   metadata |-> metadata, sections |-> letter_sections,
                   raised |-> after.raised, letter_id |-> letter_id,
                   before |-> Len(chunks), after |-> Len(after.chunks)]
       /\ UNCHANGED <<knowledge_graph, keyword_chunk_graph, customer_tree, templates>>
       /\ UNCHANGED <<memory_vars, service_vars>>

\* the filter of retrieve_letter_examples; an empty string is a falsy argument
IsExample(metadata, visa_type, profession, section_id) ==
    /\ MetaGet(metadata, "is_letter_example", FALSE)
    /\ MetaGet(metadata, "visa_type", PyNone) = visa_type
    /\ (profession = "" \/ MetaGet(metadata, "profession", PyNone) = profession)
    /\ (section_id = "" \/ MetaGet(metadata, "section_id", PyNone) = section_id)

\* the loop over enumerate(self.ketrag.chunks) from chunk i on, with its break
RECURSIVE LetterExamples(_, _, _, _, _, _, _)
LetterExamples(cs, i, letter_examples, visa_type, profession, section_id, top_k) ==
    IF i >= Len(cs) THEN letter_examples
    ELSE IF IsExample(cs[i + 1].metadata, visa_type, profession, section_id)
         THEN LET added == Append(letter_examples,
                                  [text |-> cs[i + 1].text,
                                   metadata |-> cs[i + 1].metadata,
                                   chunk_id |-> i])
              IN IF Len(added) >= top_k THEN added
                 ELSE LetterExamples(cs, i + 1, added, visa_type, profession,
                                     section_id, top_k)
         ELSE LetterExamples(cs, i + 1, letter_examples, visa_type, profession,
                             section_id, top_k)

retrieve_letter_examples(visa_type, profession, section_id, query, top_k) ==
    /\ gret' = [op |-> "retrieve_letter_examples", visa_type |-> visa_type,
                profession |-> profession, section_id |-> section_id,
                query |-> query, top_k |-> top_k,
                result |-> LetterExamples(chunks, 0, <<>>, visa_type, profession,
                                          section_id, top_k)]
    /\ UNCHANGED <<templates, letter_registry>>
    /\ UNCHANGED <<engine_vars, memory_vars, service_vars>>

\* the inputs of the letter calls
LetterTexts == {<<"p1">>, <<"p1", "p2">>, <<"">>}
LetterMetadatas ==
    {[visa_type |-> "EB1", profession |-> "researcher"],
     [visa_type |-> "EB2", profession |-> "engineer", letter_id |-> "L1"]}
LetterSections ==
    {<<>>, <<Entry("introduction", <<"p1">>), Entry("background", <<"p2">>)>>}
Uuids == {"uuid-1"}
\* a case document that is no exemplar
PlainTexts == {<<"p1">>}
PlainMetadatas == {[case_id |-> "c1", id |-> "d", visa_type |-> "EB1"]}
ExampleVisaTypes == {"EB1", ""}
ExampleProfessions == {"researcher", ""}
ExampleSections == {"introduction", ""}

----------------------------------------------------------------------------
(* Section generation: LetterGenerator.generate_section *)

\* the positions of the braces of a format string
BracePositions(template) ==
    {i \in 1..Len(template) : SubSeq(template, i, i) \in {"{", "}"}}

\* a replacement field that names a positional argument: "{}" or "{0}"
Positional(field) ==
    \A k \in 1..Len(field) : \E d \in 1..10 : SubSeq(field, k, k) = SubSeq("0123456789", d, d)

\* template.format(**kwargs) from position i on, for format strings whose
\* replacement fields are plain names without conversion or format spec. "{{"
\* and "}}" are escapes of one brace; a field that is no keyword raises
\* KeyError, a positional field IndexError (format gets no positional
\* argument), a brace that opens or closes no field ValueError. The string is
\* read left to right and the first error ends the call.
RECURSIVE Formatted(_, _, _, _)
Formatted(template, kwargs, braces, i) ==
    LET ahead == {b \in braces : b >= i}
        Raise(error) == [raised |-> error, text |-> ""]
    IN IF ahead = {}
       THEN [raised |-> "", text |-> SubSeq(template, i, Len(template))]
       ELSE LET b == Min(ahead)
                brace == SubSeq(template, b, b)
                literal == SubSeq(template, i, b - 1)
                Then(text, j) ==
                    LET rest == Formatted(template, kwargs, braces, j)
                    IN IF rest.raised # "" THEN rest
                       ELSE [raised |-> "", text |-> literal \o text \o rest.text]
                closing == {c \in braces : c > b /\ SubSeq(template, c, c) = "}"}
            IN IF b < Len(template) /\ SubSeq(template, b + 1, b + 1) = brace
               THEN Then(brace, b + 2)
               ELSE IF brace = "}" \/ closing = {}
               THEN Raise("ValueError")
               ELSE LET c == Min(closing)
                        field == SubSeq(template, b + 1, c - 1)
                    IN IF \E p \in braces : b < p /\ p < c THEN Raise("ValueError")
                       ELSE IF Positional(field) THEN Raise("IndexError")
                       ELSE IF field \notin Keys(kwargs) THEN Raise("KeyError")
                       ELSE Then(Get(kwargs, field, ""), c + 1)

format(template, kwargs) == Formatted(template, kwargs, BracePositions(template), 1)

\* separator.join(d.values())
RECURSIVE JoinValues(_, _)
JoinValues(d, separator) ==
    IF d = <<>> THEN ""
    ELSE IF Len(d) = 1 THEN d[1].value
    ELSE d[1].value \o separator \o JoinValues(Tail(d), separator)

\* text[:100] + '...' if len(text) > 100 else text
text_snippet(text) == IF Len(text) > 100 THEN SubSeq(text, 1, 100) \o "..." ELSE text

RECURSIVE format_chunks_HeadingsOnly(_, _)
\* a formatting that prints the headings and leaves the chunk text out
format_chunks_HeadingsOnly(part_chunks, i) ==
    IF i > Len(part_chunks) THEN ""
    ELSE "--- Document " \o ToString(i) \o ": "
         \o MetaGet(part_chunks[i].metadata, "filename", "Unknown") \o " ---\n"
         \o "\n\n" \o format_chunks_HeadingsOnly(part_chunks, i + 1)

RECURSIVE format_chunks(_, _)
\* the documents from number i on, each under its heading
format_chunks(part_chunks, i) ==
    IF i > Len(part_chunks) THEN ""
    ELSE "--- Document " \o ToString(i) \o ": "
         \o MetaGet(part_chunks[i].metadata, "filename", "Unknown") \o " ---\n"
         \o part_chunks[i].text \o "\n\n" \o format_chunks(part_chunks, i + 1)

RECURSIVE ExamplesFrom(_, _)
ExamplesFrom(examples, i) ==
    IF i > Len(examples) THEN ""
    ELSE "--- Example " \o ToString(i) \o " ("
         \o MetaGet(examples[i].metadata, "visa_type", "Unknown") \o ", "
         \o MetaGet(examples[i].metadata, "profession", "Unknown") \o ") ---\n"
         \o examples[i].text \o "\n\n" \o ExamplesFrom(examples, i + 1)

format_letter_examples(examples) ==
    IF examples = <<>> THEN ""
    ELSE "\n\nEXAMPLES FROM SUCCESSFUL LETTERS:\n" \o ExamplesFrom(examples, 1)

\* the prompt of one template part
part_prompt(part, section, visa_type, profession, chunks_formatted, examples_formatted) ==
    "\n            Generate the '" \o part \o "' portion of the '" \o section
    \o "' section for a " \o visa_type \o " visa application letter for a "
    \o profession \o ".\n            \n"
    \o "            Use ONLY the following information from the applicant's documents:\n"
    \o "            " \o chunks_formatted \o "\n            \n"
    \o "            " \o examples_formatted \o "\n            \n"
    \o "            Your response should be factual, professional, and based primarily on the provided documents.\n"
    \o "            Do not invent or assume information not present in the documents.\n"
    \o "            Focus specifically on information relevant to the '" \o part
    \o "' aspect.\n            "

\* the text a part gets when no generation service is configured
Placeholder(part, section, part_chunks, part_examples) ==
    LET examples_used == IF part_examples # <<>>
                         THEN " with " \o ToString(Len(part_examples)) \o " letter examples"
                         ELSE ""
    IN "[Generated " \o part \o " for " \o section \o " based on "
       \o ToString(Len(part_chunks)) \o " chunks" \o examples_used \o "]"

\* the keyword matches of the paragraphs the model runs on, evaluated once per part
MatchingTexts ==
    [part \in DOMAIN keywords |->
        {t \in Paragraphs \cup EvidenceTexts : KeywordMatch(part, [text |-> t])}]

\* the items of a list, chunks or exemplars, that the keyword loop appends to a part
Classified(part, items) ==
    LET Matches(item) == IF item.text \in Paragraphs \cup EvidenceTexts
                         THEN item.text \in MatchingTexts[part]
                         ELSE KeywordMatch(part, item)
    IN IF part \in DOMAIN keywords THEN SelectSeq(items, Matches) ELSE <<>>

\* the dict map_chunks_to_parts returns (with the fallback) and the dict
\* map_letter_examples_to_parts returns (without): one entry per template part,
\* in template_parts order
PartsMapping(parts, items, fallback) ==
    [k \in 1..Len(parts) |->
        Entry(parts[k], IF fallback THEN WithFallback(Classified(parts[k], items), items)
                        ELSE Classified(parts[k], items))]

\* a dict as the function the sections table stores
Stored(d) == [k \in Keys(d) |-> Get(d, k, <<>>)]

\* the outcomes of CaseContext(ket_rag, case_id).retrieve_for_case(query, top_k)
\* on a store: it raises when the embedding service does or when a case chunk
\* has no row in the embedding index
Retrievals(cs, emb, case_id, query, top_k) ==
    LET indices == case_chunk_indices(cs, case_id)
        similarities == [i \in 1..Len(indices) |->
                            Cosine(Embedding[query], emb[indices[i] + 1])]
    IN {[raised |-> TRUE, results |-> <<>>]}
       \cup (IF indices = <<>> THEN {[raised |-> FALSE, results |-> <<>>]}
             ELSE IF \E i \in 1..Len(indices) : indices[i] >= Len(emb)
             THEN {[raised |-> TRUE, results |-> <<>>]}
             ELSE {[raised |-> FALSE,
                    results |-> Results(cs, emb, case_id, query, top_k, perm)] :
                      perm \in argsort(similarities)})

\* the loop over primary_categories from category k on
RECURSIVE CategoryChunks(_, _, _, _, _, _, _)
CategoryChunks(cs, emb, case_id, section, categories, k, all_chunks) ==
    IF k > Len(categories) THEN {[raised |-> FALSE, all_chunks |-> all_chunks]}
    ELSE UNION {IF category_chunks.raised
                THEN {[raised |-> TRUE, all_chunks |-> <<>>]}
                ELSE CategoryChunks(cs, emb, case_id, section, categories, k + 1,
                                    all_chunks \o category_chunks.results) :
                  category_chunks \in
                      Retrievals(cs, emb, case_id,
                                 "Information for " \o section \o " from " \o categories[k], 3)}

\* the loop over template_mapping.items() from entry k on; done holds what the
\* entries before k produced. The generation service is None, or the outcomes of
\* the successive generate calls of the client; a call that raises ends the loop.
RECURSIVE Synthesised(_, _, _, _, _)
Synthesised(call, template_mapping, letter_mapping, k, done) ==
    IF k > Len(template_mapping) THEN done
    ELSE LET part == template_mapping[k].key
             part_chunks == template_mapping[k].value
             part_examples == Get(letter_mapping, part, <<>>)
             prompt == part_prompt(part, call.section, call.visa_type, call.profession,
                                   format_chunks(part_chunks, 1),
                                   format_letter_examples(part_examples))
             configured == call.llm_client # None
             reply == call.llm_client[1][done.calls + 1]
             calls == IF configured THEN done.calls + 1 ELSE done.calls
             prompts == Append(done.prompts, Entry(part, prompt))
         IN IF configured /\ reply.raised
            THEN [done EXCEPT !.raised = "generate", !.prompts = prompts, !.calls = calls]
            ELSE Synthesised(call, template_mapping, letter_mapping, k + 1,
                    [raised |-> "",
                     prompts |-> prompts,
                     calls |-> calls,
                     part_contents |->
                        Append(done.part_contents,
                               Entry(part, IF configured THEN reply.text
                                           ELSE Placeholder(part, call.section, part_chunks,
                                                            part_examples))),
                     source_citations |->
                        Append(done.source_citations,
                               Entry(part, [i \in 1..Len(part_chunks) |->
                                   [filename |-> MetaGet(part_chunks[i].metadata,
                                                         "filename", "Unknown"),
                                    text_snippet |-> text_snippet(part_chunks[i].text)]])),
                     letter_citations |->
                        Append(done.letter_citations,
                               Entry(part, [i \in 1..Len(part_examples) |->
                                   [letter_id |-> MetaGet(part_examples[i].metadata,
                                                          "letter_id", "Unknown"),
                                    visa_type |-> MetaGet(part_examples[i].metadata,
                                                          "visa_type", "Unknown"),
                                    profession |-> MetaGet(part_examples[i].metadata,
                                                           "profession", "Unknown"),
                                    text_snippet |-> text_snippet(part_examples[i].text)]]))])

\* the memory after the add_section_data calls for the parts from entry k on
RECURSIVE Persisted(_, _, _, _, _, _)
Persisted(memory, section, part_contents, template_mapping, letter_mapping, k) ==
    IF k > Len(part_contents) THEN memory
    ELSE LET part == part_contents[k].key
         IN Persisted(
               [memory EXCEPT
                   !.content = StoredContent(@, section, part, part_contents[k].value),
                   !.source_content_mapping =
                       Tracked(@, section, part, Some(Get(template_mapping, part, <<>>))),
                   !.letter_refs_mapping =
                       Tracked(@, section, part, Some(Get(letter_mapping, part, <<>>)))],
               section, part_contents, template_mapping, letter_mapping, k + 1)

\* a test that goes on whenever the case has no chunk
NothingFound_NoExamples(all_chunks, letter_examples) ==
    all_chunks = <<>> /\ letter_examples = <<>> /\ FALSE

\* if not all_chunks and not letter_examples
NothingFound(all_chunks, letter_examples) == all_chunks = <<>> /\ letter_examples = <<>>

\* The outcomes of generate_section for a call [case_id, section, profession,
\* visa_type, use_examples, llm_client] on a memory, a store and a registry:
\* what it raised ("" when it returned), its result, the memory it leaves, and
\* the locals the claims speak of.
GeneratedSection(memory, cs, emb, registry, call) ==
    LET section == call.section
        primary == IF section \in DOMAIN memory.sections
                   THEN memory.sections[section].primary_categories
                   ELSE <<>>
        gathered ==
            IF primary # <<>>
            THEN CategoryChunks(cs, emb, call.case_id, section, primary, 1, <<>>)
            ELSE {[raised |-> r.raised, all_chunks |-> r.results] :
                     r \in Retrievals(cs, emb, call.case_id,
                                      "Information for " \o section \o " section", 5)}
        Outcome(raised, after, all_chunks, letter_examples, template, done, result) ==
            [raised |-> raised, memory |-> after, all_chunks |-> all_chunks,
             letter_examples |-> letter_examples, template |-> template,
             prompts |-> done.prompts, part_contents |-> done.part_contents,
             calls |-> done.calls, result |-> result]
        nothing == [raised |-> "", prompts |-> <<>>, calls |-> 0, part_contents |-> <<>>,
                    source_citations |-> <<>>, letter_citations |-> <<>>]
        Found(all_chunks) ==
            LET letter_examples ==
                    IF call.use_examples
                    THEN LetterExamples(cs, 0, <<>>, call.visa_type, call.profession,
                                        section, 2)
                    ELSE <<>>
                known == section \in DOMAIN memory.sections
                parts == IF known THEN memory.sections[section].template_parts ELSE <<>>
                template_mapping == PartsMapping(parts, all_chunks, TRUE)
                letter_mapping == IF letter_examples # <<>>
                                  THEN PartsMapping(parts, letter_examples, FALSE)
                                  ELSE <<>>
                mapped ==
                    IF known
                    THEN [memory EXCEPT
                            !.sections[section].source_mapping = Stored(template_mapping),
                            !.sections[section].letter_refs =
                                IF letter_examples # <<>> THEN Stored(letter_mapping) ELSE @]
                    ELSE memory
                template == ResolvedTemplate(registry, call.profession, call.visa_type,
                                             section)
                done == Synthesised(call, template_mapping, letter_mapping, 1, nothing)
                filled == format(template, done.part_contents)
                section_content == IF filled.raised = "KeyError"
                                   THEN JoinValues(done.part_contents, "\n\n")
                                   ELSE filled.text
            IN IF NothingFound(all_chunks, letter_examples)
               THEN Outcome("", memory, all_chunks, letter_examples, "", nothing,
                            [content |-> "[No information available for " \o section \o "]",
                             source_mapping |-> <<>>,
                             chunks_used |-> <<>>,
                             letter_examples_used |-> <<>>])
               ELSE IF done.raised # ""
               THEN Outcome(done.raised, mapped, all_chunks, letter_examples, template,
                            done, PyNone)
               ELSE IF filled.raised \notin {"", "KeyError"}
               THEN Outcome(filled.raised, mapped, all_chunks, letter_examples, template,
                            done, PyNone)
               ELSE Outcome("",
                            Persisted(mapped, section, done.part_contents,
                                      template_mapping, letter_mapping, 1),
                            all_chunks, letter_examples, template, done,
                            [content |-> section_content,
                             source_mapping |-> template_mapping,
                             source_citations |-> done.source_citations,
                             letter_examples_mapping |-> letter_mapping,
                             letter_citations |-> done.letter_citations,
                             chunks_used |-> all_chunks,
                             letter_examples_used |-> letter_examples])
    IN {IF g.raised
        THEN Outcome("retrieve_for_case", memory, <<>>, <<>>, "", nothing, PyNone)
        ELSE Found(g.all_chunks) : g \in gathered}

generate_section(case_id, section, profession, visa_type, use_examples, llm_client) ==
    LET call == [case_id |-> case_id, section |-> section, profession |-> profession,
                 visa_type |-> visa_type, use_examples |-> use_examples,
                 llm_client |-> llm_client]
        memory == [sections |-> sections, content |-> content,
                   source_content_mapping |-> source_content_mapping,
                   letter_refs_mapping |-> letter_refs_mapping]
    IN \E outcome \in GeneratedSection(memory, chunks, chunk_embeddings, templates, call) :
          /\ sections' = outcome.memory.sections
          /\ content' = outcome.memory.content
          /\ source_content_mapping' = outcome.memory.source_content_mapping
          /\ letter_refs_mapping' = outcome.memory.letter_refs_mapping
          /\ gret' = [op |-> "generate_section", call |-> call, raised |-> outcome.raised,
                      all_chunks |-> outcome.all_chunks,
                      letter_examples |-> outcome.letter_examples,
                      template |-> outcome.template, prompts |-> outcome.prompts,
                      part_contents |-> outcome.part_contents, calls |-> outcome.calls,
                      result |-> outcome.result]
          /\ UNCHANGED <<templates, letter_registry, mret>>
          /\ UNCHANGED <<engine_vars, service_vars>>

----------------------------------------------------------------------------
(* Letter generation: CaseContext.get_case_metadata and
   LetterGenerator.generate_letter *)

\* get_all_case_chunks
AllCaseChunks(cs, case_id) ==
    LET indices == case_chunk_indices(cs, case_id)
    IN [k \in 1..Len(indices) |->
           [chunk_idx |-> indices[k],
            text |-> cs[indices[k] + 1].text,
            metadata |-> cs[indices[k] + 1].metadata]]

\* get_case_metadata; list(set(...)) has no fixed order and is kept as the set
CaseMetadata(cs, case_id) ==
    LET metas == {chunk.metadata : chunk \in Range(AllCaseChunks(cs, case_id))}
        Seen(key) == {meta[key] : meta \in {m \in metas : key \in DOMAIN m}}
    IN [case_id |-> case_id,
        visa_types |-> Seen("visa_type"),
        categories |-> Seen("category"),
        document_count |-> Cardinality(Seen("filename"))]

get_all_case_chunks(case_id) ==
    /\ ret' = [op |-> "get_all_case_chunks", raised |-> FALSE, case_id |-> case_id,
               result |-> AllCaseChunks(chunks, case_id)]
    /\ UNCHANGED <<chunks, chunk_embeddings, knowledge_graph, keyword_chunk_graph,
                    customer_tree>>
    /\ UNCHANGED <<memory_vars, generator_vars, service_vars>>

\* get_case_metadata that also files the case in the customer tree
get_case_metadata_Filing(case_id) ==
    /\ ret' = [op |-> "get_case_metadata", raised |-> FALSE, case_id |-> case_id,
               result |-> CaseMetadata(chunks, case_id)]
    /\ customer_tree' = add_node(customer_tree, case_id, [type |-> "case"])
    /\ UNCHANGED <<chunks, chunk_embeddings, knowledge_graph, keyword_chunk_graph>>
    /\ UNCHANGED <<memory_vars, generator_vars, service_vars>>

get_case_metadata(case_id) ==
    /\ ret' = [op |-> "get_case_metadata", raised |-> FALSE, case_id |-> case_id,
               result |-> CaseMetadata(chunks, case_id)]
    /\ UNCHANGED <<chunks, chunk_embeddings, knowledge_graph, keyword_chunk_graph,
                    customer_tree>>
    /\ UNCHANGED <<memory_vars, generator_vars, service_vars>>

\* the sections generated when the registry lists none
DefaultSections ==
    <<"introduction", "background", "experience", "expert_opinion", "conclusion">>

\* the section list of a letter
LetterSectionList(registry, profession, visa_type) ==
    LET listed == ListedSections(registry, profession, visa_type)
    IN IF listed = <<>> THEN DefaultSections ELSE listed

\* str.capitalize()
capitalize(s) ==
    IF s = "" THEN "" ELSE UpperChar(SubSeq(s, 1, 1)) \o lower(SubSeq(s, 2, Len(s)))

\* a heading without the name of the section
Heading_Unnamed(section) == "## Section\n"

\* f"## {section.capitalize()}\n"
Heading(section) == "## " \o capitalize(section) \o "\n"

\* section_result.get(key, default)
ResultGet(result, key, default) == IF key \in DOMAIN result THEN result[key] ELSE default

\* the loop that assembles complete_letter, from section k on
RECURSIVE Assembled(_, _, _, _)
Assembled(complete_letter, section_list, letter_content, k) ==
    IF k > Len(section_list) THEN complete_letter
    ELSE Assembled(IF section_list[k] \in Keys(letter_content)
                   THEN complete_letter \o Heading(section_list[k])
                            \o Get(letter_content, section_list[k], "") \o "\n\n"
                   ELSE complete_letter,
                   section_list, letter_content, k + 1)

\* the loop over the sections from section k on: the outcomes of the calls of
\* generate_section, threaded through the memory. A call that raises ends
\* generate_letter; abort_after = k stands for a run that is stopped after its
\* k-th section (Len(section_list) and more: never).
RECURSIVE LetterSectionsFrom(_, _, _, _, _, _, _, _)
LetterSectionsFrom(memory, cs, emb, registry, call, section_list, k, run) ==
    IF k > Len(section_list)
    THEN {[run EXCEPT !.memory = memory]}
    ELSE IF call.abort_after = k - 1
    THEN {[run EXCEPT !.memory = memory, !.raised = "KeyboardInterrupt"]}
    ELSE UNION
        {IF outcome.raised # ""
         THEN {[run EXCEPT !.memory = outcome.memory, !.raised = outcome.raised,
                           !.started = Append(@, section_list[k])]}
         ELSE LetterSectionsFrom(
                  outcome.memory, cs, emb, registry, call, section_list, k + 1,
                  [run EXCEPT
                      !.started = Append(@, section_list[k]),
                      !.results = Append(@, outcome.result),
                      !.part_contents = Append(@, outcome.part_contents),
                      !.letter_content = Put(@, section_list[k], outcome.result.content),
                      !.section_metadata =
                          Put(@, section_list[k],
                              [source_citations |->
                                  ResultGet(outcome.result, "source_citations", <<>>),
                               letter_citations |->
                                  ResultGet(outcome.result, "letter_citations", <<>>),
                               chunk_count |->
                                  Len(ResultGet(outcome.result, "chunks_used", <<>>)),
                               example_count |->
                                  Len(ResultGet(outcome.result, "letter_examples_used",
                                                <<>>))])]) :
           outcome \in GeneratedSection(memory, cs, emb, registry,
                                        [case_id |-> call.case_id,
                                         section |-> section_list[k],
                                         profession |-> call.profession,
                                         visa_type |-> call.visa_type,
                                         use_examples |-> call.use_examples,
                                         llm_client |-> call.llm_client])}

\* the outcomes of generate_letter: the memory it leaves, what it raised, the
\* sections it started and its result
GeneratedLetter(memory, cs, emb, registry, call) ==
    LET section_list == LetterSectionList(registry, call.profession, call.visa_type)
        runs == LetterSectionsFrom(memory, cs, emb, registry, call, section_list, 1,
                                   [memory |-> memory, raised |-> "", started |-> <<>>,
                                    results |-> <<>>, part_contents |-> <<>>,
                                    letter_content |-> <<>>,
                                    section_metadata |-> <<>>])
        header == "\n        # " \o call.visa_type \o " Visa Application Letter for Case "
                     \o call.case_id \o "\n        \n        "
    IN {[memory |-> run.memory, raised |-> run.raised, sections |-> section_list,
         started |-> run.started, results |-> run.results,
         part_contents |-> run.part_contents,
         result |->
            IF run.raised # "" THEN PyNone
            ELSE [full_letter |-> Assembled(header, section_list, run.letter_content, 1),
                  sections |-> run.letter_content,
                  metadata |-> CaseMetadata(cs, call.case_id),
                  section_metadata |-> run.section_metadata,
                  case_id |-> call.case_id,
                  visa_type |-> call.visa_type,
                  profession |-> call.profession,
                  letter_examples_used |-> call.use_examples]] : run \in runs}

generate_letter(case_id, profession, visa_type, use_examples, llm_client, abort_after) ==
    LET call == [case_id |-> case_id, profession |-> profession, visa_type |-> visa_type,
                 use_examples |-> use_examples, llm_client |-> llm_client,
                 abort_after |-> abort_after]
        memory == [sections |-> sections, content |-> content,
                   source_content_mapping |-> source_content_mapping,
                   letter_refs_mapping |-> letter_refs_mapping]
    IN \E outcome \in GeneratedLetter(memory, chunks, chunk_embeddings, templates, call) :
          /\ sections' = outcome.memory.sections
          /\ content' = outcome.memory.content
          /\ source_content_mapping' = outcome.memory.source_content_mapping
          /\ letter_refs_mapping' = outcome.memory.letter_refs_mapping
          /\ gret' = [op |-> "generate_letter", call |-> call, raised |-> outcome.raised,
                      sections |-> outcome.sections, started |-> outcome.started,
                      results |-> outcome.results,
                      part_contents |-> outcome.part_contents, before |-> memory,
                      result |-> outcome.result]
          /\ UNCHANGED <<templates, letter_registry, mret>>
          /\ UNCHANGED <<engine_vars, service_vars>>

\* the number of sections after which a run of generate_letter is stopped: after
\* the second, or (no list has more than five sections) never
AbortAfter == {2, 5}

\* the inputs of the generation runs: a case document of two paragraphs, an
\* exemplar letter given by section, the templates registered for the section
GeneratedTexts == {<<"University degree", "Expert skill">>}
GeneratedMetadatas == {[case_id |-> "c1", id |-> "d"]}
ExemplarMetadatas == {[visa_type |-> "EB2", profession |-> "engineer", letter_id |-> "L1"]}
ExemplarSections == {<<Entry("background", <<"Academic study">>)>>}
RegisteredTemplates == {"{0}"}
GeneratedSections == {"background", "conclusion"}
GeneratedProfessions == {"engineer"}
\* the professions letters are generated for: with and without registered sections
LetterProfessions == {"engineer", "nurse"}
\* the metadata of an exemplar of the letters generated as a whole
LetterExemplarMetadatas ==
    {[visa_type |-> "O1", profession |-> "engineer", letter_id |-> "L1"]}
\* the metadata of exemplar letters, one of them filed under a case
CaseExemplarMetadatas ==
    ExemplarMetadatas
    \cup {[visa_type |-> "EB2", profession |-> "engineer", letter_id |-> "L2",
           case_id |-> "c1"]}
\* no generation service, and a client that answers every call
AnsweringClients ==
    {None,
     Some(<<[raised |-> FALSE, text |-> "alpha"], [raised |-> FALSE, text |-> "beta"],
            [raised |-> FALSE, text |-> "gamma"]>>)}
\* and a client whose second call raises
LLMClients ==
    AnsweringClients
    \cup {Some(<<[raised |-> FALSE, text |-> "alpha"], [raised |-> TRUE, text |-> ""]>>)}

----------------------------------------------------------------------------
(* Initial state and specifications *)

EngineInit ==
    /\ chunks = <<>>
    /\ chunk_embeddings = <<>>
    /\ knowledge_graph = [nodes |-> {}, edges |-> NoEdges, pagerank |-> {}]
    /\ keyword_chunk_graph = {}
    /\ customer_tree = NoTree
    /\ ret = [op |-> "__init__", raised |-> FALSE]

MemoryInit ==
    /\ sections = [s \in SectionNames |->
                      [required_sources |-> required_sources[s],
                       primary_categories |-> primary_categories[s],
                       template_parts |-> template_parts[s],
                       source_mapping |-> <<>>,
                       letter_refs |-> <<>>]]
    /\ content = <<>>
    /\ source_content_mapping = <<>>
    /\ letter_refs_mapping = <<>>
    /\ mret = [op |-> "__init__"]

GeneratorInit ==
    /\ templates = _initialize_default_templates
    /\ letter_registry = <<>>
    /\ gret = [op |-> "__init__"]

ServiceInit ==
    /\ llm = Idle
    /\ threads = NoThreads

Init == EngineInit /\ MemoryInit /\ GeneratorInit /\ ServiceInit

\* ingestion and graph construction
Next ==
    \/ \E text \in Texts, metadata \in Metadatas : process_document(text, metadata)
    \/ _build_knowledge_graph

Spec == Init /\ [][Next]_vars

\* ingestion and building the customer tree
NextTree ==
    \/ \E text \in {<<"p1">>}, metadata \in TreeMetadatas : process_document(text, metadata)
    \/ build_customer_tree

SpecTree == Init /\ [][NextTree]_vars

\* the ingestion thread and the retrieval thread
NextThreads ==
    \/ \E metadata \in RetrieveMetadatas : ingest_extend(<<"p1">>, metadata)
    \/ ingest_store
    \/ build_clear
    \/ build_nodes
    \/ build_edges
    \/ build_pagerank
    \/ build_keywords
    \/ \E case_id \in {"c1"}, query \in {"q1"} : retrieve_filter(case_id, query, 1)
    \/ retrieve_rank
    \/ retrieve_next

SpecThreads == Init /\ [][NextThreads]_vars

\* ingestion and retrieval
NextRetrieve ==
    \/ \E text \in Texts, metadata \in RetrieveMetadatas : process_document(text, metadata)
    \/ \E case_id \in CaseIds, query \in Queries, top_k \in 0..MaxTopK :
          retrieve_for_case(case_id, query, top_k)

SpecRetrieve == Init /\ [][NextRetrieve]_vars

\* classification of evidence into template parts
NextMapping ==
    \E section_name \in MappedSectionNames, evidence \in EvidenceLists :
        map_chunks_to_parts(section_name, evidence)

SpecMapping == Init /\ [][NextMapping]_vars

\* writes to the memory
NextMemory ==
    \E section_name \in MemorySections, field_name \in MemoryFields, new_content \in Contents,
       source_chunks \in OptionalLists(EvidenceChunks, MaxSources),
       letter_refs \in OptionalLists(Exemplars, MaxRefs) :
        add_section_data(section_name, field_name, new_content, source_chunks, letter_refs)

SpecMemory == Init /\ [][NextMemory]_vars

\* writes to the memory and template filling
NextFill ==
    \/ \E section_name \in FillSections, field_name \in MemoryFields,
          new_content \in FillContents :
          add_section_data(section_name, field_name, new_content, None, None)
    \/ \E template \in FillTemplates, additional_fields \in AdditionalFields :
          fill_template(template, additional_fields)

SpecFill == Init /\ [][NextFill]_vars

\* writes to the memory under names with dots
NextNames ==
    \E names \in DottedNames,
       source_chunks \in OptionalLists(EvidenceChunks, MaxSources),
       letter_refs \in OptionalLists(Exemplars, MaxRefs) :
        add_section_data(names[1], names[2], "text A", source_chunks, letter_refs)

SpecNames == Init /\ [][NextNames]_vars

\* registrations and resolutions of templates
NextRegistry ==
    \/ \E profession \in AddedProfessions, visa_type \in AddedVisaTypes,
          section \in AddedSections, template \in AddedTemplates :
          add_template(profession, visa_type, section, template)
    \/ \E profession \in Professions, visa_type \in VisaTypes :
          get_sections(profession, visa_type)
    \/ \E profession \in Professions, visa_type \in VisaTypes,
          section \in RegistrySections :
          get_template(profession, visa_type, section)

SpecRegistry == Init /\ [][NextRegistry]_vars

\* calls of the generation service
NextService ==
    \/ \E prompt \in Prompts : generate_text(prompt)
    \/ chat_completion
    \/ wait_exponential

\* an attempt ends (the HTTP client has a timeout) and a sleep ends
SpecService ==
    Init /\ [][NextService]_vars /\ WF_vars(chat_completion) /\ WF_vars(wait_exponential)

\* exemplar letters: ingestion and retrieval
NextLetters ==
    \/ \E text \in PlainTexts, metadata \in PlainMetadatas :
          process_document(text, metadata)
    \/ \E letter_text \in LetterTexts, metadata \in LetterMetadatas,
          letter_sections \in LetterSections, uuid \in Uuids, fail_at \in 0..2 :
          process_letter(letter_text, metadata, letter_sections, uuid, fail_at)
    \/ \E visa_type \in ExampleVisaTypes, profession \in ExampleProfessions,
          section_id \in ExampleSections, top_k \in 0..MaxTopK :
          retrieve_letter_examples(visa_type, profession, section_id, "q1", top_k)

SpecLetters == Init /\ [][NextLetters]_vars

\* section generation over ingested case documents and exemplar letters
NextGenerate ==
    \/ \E text \in GeneratedTexts, metadata \in GeneratedMetadatas :
          process_document(text, metadata)
    \/ \E metadata \in ExemplarMetadatas, letter_sections \in ExemplarSections :
          process_letter(<<"">>, metadata, letter_sections, "uuid-1", 0)
    \/ \E template \in RegisteredTemplates :
          add_template("engineer", ANY, "background", template)
    \/ \E section \in GeneratedSections, profession \in GeneratedProfessions,
          use_examples \in BOOLEAN, llm_client \in LLMClients :
          generate_section("c1", section, profession, "EB2", use_examples, llm_client)

SpecGenerate == Init /\ [][NextGenerate]_vars

\* section generation with the default templates and a service that answers
NextSynthesis ==
    \/ \E text \in GeneratedTexts, metadata \in GeneratedMetadatas :
          process_document(text, metadata)
    \/ \E metadata \in ExemplarMetadatas, letter_sections \in ExemplarSections :
          process_letter(<<"">>, metadata, letter_sections, "uuid-1", 0)
    \/ \E section \in GeneratedSections, profession \in GeneratedProfessions,
          use_examples \in BOOLEAN, llm_client \in AnsweringClients :
          generate_section("c1", section, profession, "EB2", use_examples, llm_client)

SpecSynthesis == Init /\ [][NextSynthesis]_vars

\* case documents, exemplar letters filed with or without a case, retrieval
\* and generation
NextExemplars ==
    \/ \E text \in GeneratedTexts, metadata \in GeneratedMetadatas :
          process_document(text, metadata)
    \/ \E metadata \in CaseExemplarMetadatas, letter_sections \in ExemplarSections :
          process_letter(<<"">>, metadata, letter_sections, "uuid-1", 0)
    \/ retrieve_for_case("c1", "Information for conclusion section", MaxTopK)
    \/ \E section \in GeneratedSections :
          generate_section("c1", section, "engineer", "EB2", TRUE, None)

SpecExemplars == Init /\ [][NextExemplars]_vars

\* case documents, exemplar letters and letters
NextLetter ==
    \/ \E text \in GeneratedTexts, metadata \in GeneratedMetadatas :
          process_document(text, metadata)
    \/ \E metadata \in LetterExemplarMetadatas, letter_sections \in ExemplarSections :
          process_letter(<<"">>, metadata, letter_sections, "uuid-1", 0)
    \/ \E profession \in LetterProfessions, use_examples \in BOOLEAN,
          abort_after \in AbortAfter :
          generate_letter("c1", profession, "O1", use_examples, None, abort_after)

SpecLetter == Init /\ [][NextLetter]_vars

\* ingestion, building the graphs and the customer tree, and the operations that
\* only read the engine
NextReadOnly ==
    \/ \E text \in {<<"p1", "p2">>}, metadata \in GeneratedMetadatas :
          process_document(text, metadata)
    \/ _build_knowledge_graph
    \/ build_customer_tree
    \/ retrieve_for_case("c1", "Information for conclusion section", MaxTopK)
    \/ get_all_case_chunks("c1")
    \/ get_case_metadata("c1")
    \/ generate_section("c1", "conclusion", "engineer", "O1", TRUE, None)
    \/ generate_letter("c1", "engineer", "O1", TRUE, None, 5)

SpecReadOnly == Init /\ [][NextReadOnly]_vars

----------------------------------------------------------------------------
(* What the claims speak of *)

\* the cosine similarity of two texts, as the embedding service sees them
Similarity(a, b) == Cosine(Embedding[a], Embedding[b])

\* the last call was a graph build on a non-empty store and it returned
BuildReturned ==
    /\ ret.op = "_build_knowledge_graph"
    /\ ~ret.raised
    /\ chunks # <<>>

\* the chunk ids of a case, by the case_id the chunks carry
ChunksOfCase(case_id) ==
    {i \in ChunkIds(chunks) : MetaGet(chunks[i + 1].metadata, "case_id", PyNone) = case_id}

\* the first chunk of document doc_id of a case
FirstChunkOf(case_id, doc_id) ==
    Min({i \in ChunksOfCase(case_id) : chunks[i + 1].metadata.id = doc_id})

\* the document ids of a case
DocsOfCase(case_id) == {chunks[i + 1].metadata.id : i \in ChunksOfCase(case_id)}

\* the last call was a retrieval and it returned
RetrieveReturned == ret.op = "retrieve_for_case" /\ ~ret.raised

----------------------------------------------------------------------------
(* Claims on the knowledge graph *)

\* C1: the knowledge graph never holds an edge, of either type and in either
\* direction, between two chunks whose case_id differ.
C1_NoCrossCaseEdge ==
    \A e \in DOMAIN knowledge_graph.edges :
        chunks[e[1] + 1].metadata.case_id = chunks[e[2] + 1].metadata.case_id

\* C2: every keyword node of the keyword-chunk graph is adjacent to chunks of
\* one case only.
C2_KeywordNodeSingleCase ==
    \A e1, e2 \in keyword_chunk_graph :
        e1[1] = e2[1] =>
            \A i, j \in ChunkIds(chunks) :
                (ChunkNode(i) = e1[2] /\ ChunkNode(j) = e2[2]) =>
                    chunks[i + 1].metadata.case_id = chunks[j + 1].metadata.case_id

\* C3: after a build, the first chunks of every two distinct documents of a
\* case are joined in both directions by an edge of type same_case_explicit
\* and weight 0.5, whatever their similarity.
C3_ExplicitConnectivity ==
    BuildReturned =>
        \A case_id \in CaseIds :
            \A d1, d2 \in DocsOfCase(case_id) :
                d1 # d2 =>
                    LET e == <<FirstChunkOf(case_id, d1), FirstChunkOf(case_id, d2)>>
                    IN /\ e \in DOMAIN knowledge_graph.edges
                       /\ knowledge_graph.edges[e].edge_type = "same_case_explicit"
                       /\ CosEq(knowledge_graph.edges[e].weight, ExplicitWeight)

\* C4: after a build, an edge i -> j of type same_case_similarity exists if
\* and only if chunks i and j are distinct chunks of one case whose cosine
\* similarity is strictly greater than 0.4.
C4_SimilarityThreshold ==
    BuildReturned =>
        \A i, j \in ChunkIds(chunks) :
            i # j =>
                ((/\ <<i, j>> \in DOMAIN knowledge_graph.edges
                  /\ knowledge_graph.edges[<<i, j>>].edge_type = "same_case_similarity")
                 <=>
                 (/\ chunks[i + 1].metadata.case_id = chunks[j + 1].metadata.case_id
                  /\ CosLess(threshold, Similarity(chunks[i + 1].text, chunks[j + 1].text))))

----------------------------------------------------------------------------
(* Claims on ingestion and retrieval *)

\* C5: the embedding index holds exactly one vector per stored chunk, in the
\* order of the chunk store, whether process_document returned or raised.
C5_OneVectorPerChunk ==
    /\ Len(chunk_embeddings) = Len(chunks)
    /\ \A i \in 1..Len(chunks) : chunk_embeddings[i] = Embedding[chunks[i].text]

\* C6: a retrieval with top_k >= 0 returns exactly min(top_k, number of chunks
\* of the case) results, without duplicates, all of the context's case.
C6_ResultCount ==
    RetrieveReturned =>
        LET n == Cardinality(ChunksOfCase(ret.case_id))
        IN /\ Len(ret.results) = (IF ret.top_k <= n THEN ret.top_k ELSE n)
           /\ \A a, b \in 1..Len(ret.results) :
                 a # b => ret.results[a].chunk_idx # ret.results[b].chunk_idx
           /\ \A a \in 1..Len(ret.results) :
                 ret.results[a].metadata.case_id = ret.case_id

\* C7: the results are sorted by score descending, equal scores by ascending
\* chunk id, and each score is the similarity of that chunk to the query.
C7_ResultOrder ==
    RetrieveReturned =>
        /\ \A a \in 1..(Len(ret.results) - 1) :
              \/ CosLess(ret.results[a + 1].score, ret.results[a].score)
              \/ /\ CosEq(ret.results[a + 1].score, ret.results[a].score)
                 /\ ret.results[a].chunk_idx < ret.results[a + 1].chunk_idx
        /\ \A a \in 1..Len(ret.results) :
              CosEq(ret.results[a].score,
                    Similarity(ret.query, chunks[ret.results[a].chunk_idx + 1].text))

\* C8: a retrieval on a case that has no chunk in the store returns the empty
\* list, does not raise, and leaves chunk store and embedding index unchanged.
C8_SoftFailOnEmptyCase ==
    [][(ret'.op = "retrieve_for_case" /\ ChunksOfCase(ret'.case_id) = {}) =>
          (/\ ~ret'.raised
           /\ ret'.results = <<>>
           /\ chunks' = chunks
           /\ chunk_embeddings' = chunk_embeddings)]_vars

----------------------------------------------------------------------------
(* Claims on the atomic memory *)

\* the last call classified a non-empty chunk list for a known section
MappedKnownSection ==
    /\ mret.op = "map_chunks_to_parts"
    /\ mret.section_name \in DOMAIN sections
    /\ mret.chunks # <<>>

\* C9: for a known section and a non-empty chunk list, the returned mapping has
\* exactly the section's template parts as keys, every part holds at least one
\* chunk, and a part no chunk matches holds exactly the first chunk of the list.
C9_FallbackCompleteness ==
    MappedKnownSection =>
        /\ DOMAIN mret.result = Range(sections[mret.section_name].template_parts)
        /\ \A part \in DOMAIN mret.result :
              /\ mret.result[part] # <<>>
              /\ (\A i \in 1..Len(mret.chunks) : ~KeywordMatch(part, mret.chunks[i])) =>
                     mret.result[part] = <<mret.chunks[1]>>

\* a list of two different chunks where one part took the second chunk by
\* keyword and another part, matched by none, fell back to the first
C9_Witness ==
    /\ MappedKnownSection
    /\ Len(mret.chunks) = 2
    /\ mret.chunks[1] # mret.chunks[2]
    /\ \E matched, unmatched \in DOMAIN mret.result :
          /\ mret.result[matched] = <<mret.chunks[2]>>
          /\ \A i \in 1..2 : ~KeywordMatch(unmatched, mret.chunks[i])
          /\ mret.result[unmatched] = <<mret.chunks[1]>>

\* the list an optional argument stands for
ListOf(optional) == IF optional = None THEN <<>> ELSE optional[1]

\* C10: after add_section_data the three getters give back the content, the
\* source chunks and the exemplar references of that call (the empty list when
\* omitted or empty), and the same call again leaves the memory unchanged.
C10_LastWriteWins ==
    mret.op = "add_section_data" =>
        /\ get_section_data(mret.section_name, mret.field_name) = mret.content
        /\ get_sources(mret.section_name, mret.field_name) = ListOf(mret.source_chunks)
        /\ get_letter_references(mret.section_name, mret.field_name) = ListOf(mret.letter_refs)
        /\ StoredContent(content, mret.section_name, mret.field_name, mret.content) = content
        /\ Tracked(source_content_mapping, mret.section_name, mret.field_name,
                   mret.source_chunks) = source_content_mapping
        /\ Tracked(letter_refs_mapping, mret.section_name, mret.field_name,
                   mret.letter_refs) = letter_refs_mapping

----------------------------------------------------------------------------
(* Claims on template filling and template resolution *)

\* the text with every placeholder {{key}} of a key of data replaced by the
\* value of that key, and everything else left as it is
RECURSIVE Substituted(_, _)
Substituted(text, data) ==
    IF text = "" THEN ""
    ELSE LET here == {i \in DOMAIN data :
                         StartsWith(text, "{{" \o data[i].key \o "}}")}
         IN IF here # {}
            THEN LET i == CHOOSE k \in here : TRUE
                 IN data[i].value
                    \o Substituted(SubSeq(text, Len(data[i].key) + 5, Len(text)), data)
            ELSE SubSeq(text, 1, 1) \o Substituted(SubSeq(text, 2, Len(text)), data)

\* C11: fill_template replaces every {{key}} placeholder of a stored part name
\* or extra field by that key's value (an extra field overriding stored
\* content), leaves the other placeholders unchanged, and does not change the
\* memory.
C11_FillTemplate ==
    [][mret'.op = "fill_template" =>
          /\ mret'.result =
                Substituted(mret'.template, FillData(content', mret'.additional_fields))
          /\ UNCHANGED <<sections, content, source_content_mapping, letter_refs_mapping>>]_vars


\* the last call resolved a template
Resolved == gret.op = "get_template"

\* C12: get_template returns the template of the exact triple if registered,
\* else that of (profession, ANY, section), else that of (ANY, visa_type,
\* section), else the empty string.
C12_ResolutionOrder ==
    Resolved =>
        LET exact == <<gret.profession, gret.visa_type, gret.section>>
            by_profession == <<gret.profession, ANY, gret.section>>
            by_visa == <<ANY, gret.visa_type, gret.section>>
        IN /\ exact \in DOMAIN templates => gret.result = templates[exact]
           /\ (exact \notin DOMAIN templates /\ by_profession \in DOMAIN templates) =>
                 gret.result = templates[by_profession]
           /\ (exact \notin DOMAIN templates /\ by_profession \notin DOMAIN templates
                  /\ by_visa \in DOMAIN templates) =>
                 gret.result = templates[by_visa]
           /\ (exact \notin DOMAIN templates /\ by_profession \notin DOMAIN templates
                  /\ by_visa \notin DOMAIN templates) =>
                 gret.result = ""

\* a resolution with no exact template where a profession template and a
\* different visa template are both registered, and the profession one is returned
C12_Witness ==
    /\ Resolved
    /\ <<gret.profession, gret.visa_type, gret.section>> \notin DOMAIN templates
    /\ <<gret.profession, ANY, gret.section>> \in DOMAIN templates
    /\ <<ANY, gret.visa_type, gret.section>> \in DOMAIN templates
    /\ gret.profession # ANY /\ gret.visa_type # ANY
    /\ templates[<<gret.profession, ANY, gret.section>>]
          # templates[<<ANY, gret.visa_type, gret.section>>]
    /\ gret.result = templates[<<gret.profession, ANY, gret.section>>]

----------------------------------------------------------------------------
(* Claims on exemplar letters *)

\* the last letter call was process_letter and it returned; the chunks it
\* added are those numbered gret.before + 1 .. gret.after
LetterProcessed == gret.op = "process_letter" /\ ~gret.raised

\* C13: process_letter without sections adds exactly one chunk, tagged
\* is_letter_example, whatever the letter text; with sections every added
\* chunk is tagged is_letter_example and carries the section_id of its section.
C13_LetterChunks ==
    LetterProcessed =>
        IF gret.sections = <<>>
        THEN /\ gret.after = gret.before + 1
             /\ MetaGet(chunks[gret.after].metadata, "is_letter_example", FALSE)
        ELSE \A i \in (gret.before + 1)..gret.after :
                /\ MetaGet(chunks[i].metadata, "is_letter_example", FALSE)
                /\ \E j \in 1..Len(gret.sections) :
                      /\ MetaGet(chunks[i].metadata, "section_id", PyNone)
                            = gret.sections[j].key
                      /\ chunks[i].text \in Range(gret.sections[j].value)

\* the chunk ids, in store order, of the exemplar chunks that equal every
\* non-empty filter argument
MatchingExamples(visa_type, profession, section_id) ==
    Ascending({i \in ChunkIds(chunks) :
        /\ MetaGet(chunks[i + 1].metadata, "is_letter_example", FALSE)
        /\ (visa_type = "" \/ MetaGet(chunks[i + 1].metadata, "visa_type", PyNone) = visa_type)
        /\ (profession = ""
               \/ MetaGet(chunks[i + 1].metadata, "profession", PyNone) = profession)
        /\ (section_id = ""
               \/ MetaGet(chunks[i + 1].metadata, "section_id", PyNone) = section_id)})

\* C14: retrieve_letter_examples returns, in store order, the first top_k
\* exemplar chunks (none when top_k = 0) that equal each non-empty filter
\* argument; an empty argument, visa_type included, excludes no chunk.
C14_ExamplesByFilter ==
    gret.op = "retrieve_letter_examples" =>
        LET matching == MatchingExamples(gret.visa_type, gret.profession, gret.section_id)
            n == IF gret.top_k <= Len(matching) THEN gret.top_k ELSE Len(matching)
        IN /\ Len(gret.result) = n
           /\ \A k \in 1..n :
                 /\ k <= Len(gret.result)
                 /\ gret.result[k].chunk_id = matching[k]
                 /\ gret.result[k].text = chunks[matching[k] + 1].text
                 /\ gret.result[k].metadata = chunks[matching[k] + 1].metadata

----------------------------------------------------------------------------
(* Claims on section generation *)

\* the last generator call was generate_section and it returned
SectionReturned == gret.op = "generate_section" /\ gret.raised = ""

\* generate_section found evidence or exemplars, and got every part's text
Synthesized ==
    /\ gret.op = "generate_section"
    /\ gret.raised \notin {"retrieve_for_case", "generate"}
    /\ ~(gret.all_chunks = <<>> /\ gret.letter_examples = <<>>)

\* C15: when generate_section finds no evidence chunk and no exemplar, it
\* returns the content "[No information available for <section>]" with empty
\* chunks_used, letter_examples_used and source_mapping, makes no call of the
\* generation service, and leaves the memory content and traceability as they were.
C15_NothingFound ==
    [][(/\ gret'.op = "generate_section"
        /\ gret'.raised = ""
        /\ gret'.all_chunks = <<>>
        /\ gret'.letter_examples = <<>>)
          => /\ gret'.result =
                   [content |-> "[No information available for " \o gret'.call.section \o "]",
                    source_mapping |-> <<>>,
                    chunks_used |-> <<>>,
                    letter_examples_used |-> <<>>]
             /\ gret'.calls = 0
             /\ UNCHANGED <<sections, content, source_content_mapping,
                            letter_refs_mapping>>]_vars

\* a call that found nothing, made with a client, on a memory that holds content
C15_Witness ==
    /\ SectionReturned
    /\ gret.all_chunks = <<>>
    /\ gret.letter_examples = <<>>
    /\ gret.call.llm_client # None
    /\ content # <<>>

\* the per-part texts of the last call joined in template_parts order
JoinedParts ==
    LET parts == template_parts[gret.call.section]
    IN JoinValues([k \in 1..Len(parts) |->
                      Entry(parts[k], Get(gret.part_contents, parts[k], ""))], "\n\n")

\* C16: whenever filling the resolved template with the per-part texts fails,
\* generate_section does not raise and the section content is the per-part
\* texts joined in template_parts order.
C16_FormatFallback ==
    (Synthesized /\ format(gret.template, gret.part_contents).raised # "")
        => (gret.raised = "" /\ gret.result.content = JoinedParts)

\* C17: when generate_section returns after finding evidence or exemplars, the
\* section content contains the generated text of every template part.
C17_ContentHoldsParts ==
    (Synthesized /\ gret.raised = "")
        => \A k \in 1..Len(gret.part_contents) :
              Contains(gret.part_contents[k].value, gret.result.content)

\* C18: generate_section never fails because of the generation service: a
\* generate call that raises does not end the call, and with no service every
\* part gets its labelled placeholder.
C18_ServiceNeverFatal ==
    gret.op = "generate_section"
        => /\ gret.raised # "generate"
           /\ (Synthesized /\ gret.call.llm_client = None)
                 => \A k \in 1..Len(gret.part_contents) :
                       StartsWith(gret.part_contents[k].value,
                                  "[Generated " \o gret.part_contents[k].key \o " for "
                                  \o gret.call.section)

\* C19: the prompt of a part holds the text of exactly the evidence chunks and
\* exemplars the mapping assigned to that part: the text of a found chunk or
\* exemplar is in the prompt if and only if it is the text of one assigned to
\* the part.
C19_PromptIsolation ==
    (Synthesized /\ gret.raised = "")
        => \A k \in 1..Len(gret.prompts) :
              LET part == gret.prompts[k].key
                  prompt == gret.prompts[k].value
                  TextsOf(items) == {item.text : item \in Range(items)}
              IN /\ \A chunk \in Range(gret.all_chunks) :
                       Contains(chunk.text, prompt)
                          <=> chunk.text
                                 \in TextsOf(Get(gret.result.source_mapping, part, <<>>))
                 /\ \A example \in Range(gret.letter_examples) :
                       Contains(example.text, prompt)
                          <=> example.text
                                 \in TextsOf(Get(gret.result.letter_examples_mapping,
                                                 part, <<>>))

\* two parts with different evidence, and an exemplar that only one part got
C19_Witness ==
    /\ Synthesized
    /\ gret.raised = ""
    /\ \E p, q \in Keys(gret.result.source_mapping) :
          /\ Get(gret.result.source_mapping, p, <<>>)
                # Get(gret.result.source_mapping, q, <<>>)
          /\ Get(gret.result.letter_examples_mapping, p, <<>>) # <<>>
          /\ Get(gret.result.letter_examples_mapping, q, <<>>) = <<>>

\* C20: after generate_section returns for a section with evidence or
\* exemplars, whatever the memory held before, for every part the stored
\* content is the text of this call, get_sources the chunks of this call and
\* get_letter_references the exemplars of this call (none without use_examples).
C20_MemoryIsThisCall ==
    (Synthesized /\ gret.raised = "")
        => \A k \in 1..Len(gret.part_contents) :
              LET part == gret.part_contents[k].key
                  section == gret.call.section
              IN /\ Get(Get(content, section, <<>>), part, PyNone)
                       = gret.part_contents[k].value
                 /\ get_sources(section, part)
                       = Get(gret.result.source_mapping, part, <<>>)
                 /\ get_letter_references(section, part)
                       = Get(gret.result.letter_examples_mapping, part, <<>>)


----------------------------------------------------------------------------
(* Claims on evidence and exemplars *)

\* the chunk is tagged as a chunk of an exemplar letter
IsLetterExample(chunk) == MetaGet(chunk.metadata, "is_letter_example", FALSE) = TRUE

\* C27: the chunks retrieve_for_case returns, and the chunks generate_section
\* reports as chunks_used and maps to the parts as sources, are never chunks
\* tagged is_letter_example.
C27_EvidenceExcludesExemplars ==
    /\ (ret.op = "retrieve_for_case" /\ ~ret.raised) =>
          \A i \in DOMAIN ret.results : ~IsLetterExample(ret.results[i])
    /\ (gret.op = "generate_section" /\ gret.raised = "") =>
          /\ \A i \in DOMAIN gret.result.chunks_used :
                ~IsLetterExample(gret.result.chunks_used[i])
          /\ \A p \in DOMAIN gret.result.source_mapping :
                \A i \in DOMAIN gret.result.source_mapping[p].value :
                    ~IsLetterExample(gret.result.source_mapping[p].value[i])

----------------------------------------------------------------------------
(* Claims on the section lists of the registry *)

\* every registered template is non-empty
AllTemplatesNonEmpty == \A key \in DOMAIN templates : templates[key] # ""

\* C29: in a registry of non-empty templates, every section get_sections
\* lists for (profession, visa_type) resolves to a non-empty template through
\* get_template for that pair, and every section get_template resolves for
\* the pair is listed by get_sections.
C29_SectionsResolve ==
    (gret.op = "get_sections" /\ AllTemplatesNonEmpty) =>
        /\ \A i \in DOMAIN gret.result :
              ResolvedTemplate(templates, gret.profession, gret.visa_type, gret.result[i]) # ""
        /\ \A key \in DOMAIN templates :
              ResolvedTemplate(templates, gret.profession, gret.visa_type, key[3]) # ""
                  => key[3] \in Range(gret.result)


----------------------------------------------------------------------------
(* Claims on the traceability of the memory *)

\* C30: a write of add_section_data under (section, part) with non-empty lists
\* makes get_sources(section, part) and get_letter_references(section, part)
\* return those lists, and changes nothing of what the two getters return for
\* any other pair or for any other section: data written under one section or
\* pair is never returned for another.
C30_NoLeakAcrossNames ==
    [][mret'.op = "add_section_data" =>
          LET section == mret'.section_name
              part == mret'.field_name
          IN /\ Truthy(mret'.source_chunks) =>
                    Traced(source_content_mapping', section, part) = ListOf(mret'.source_chunks)
             /\ Truthy(mret'.letter_refs) =>
                    Traced(letter_refs_mapping', section, part) = ListOf(mret'.letter_refs)
             /\ \A names \in DottedNames \ {<<section, part>>} :
                    LET other == names[1]
                        field == names[2]
                    IN  /\ Traced(source_content_mapping', other, field) = get_sources(other, field)
                        /\ Traced(letter_refs_mapping', other, field)
                              = get_letter_references(other, field)
             /\ \A other \in {names[1] : names \in DottedNames} \ {section} :
                    /\ Traced(source_content_mapping', other, "") = get_sources(other, "")
                    /\ Traced(letter_refs_mapping', other, "") = get_letter_references(other, "")]_vars


----------------------------------------------------------------------------
(* Claims on rebuilding the graphs and the customer tree *)

\* C28: after _build_knowledge_graph on a non-empty chunk store the node set
\* is the set of chunk ids 0..len(chunks)-1, every node carries a pagerank
\* score and every edge is one this build added from the current store; on an
\* empty store the build returns without error.
C28_BuildResets ==
    ret.op = "_build_knowledge_graph" =>
        IF Len(chunks) = 0
        THEN ~ret.raised
        ELSE /\ ~ret.raised
             /\ knowledge_graph.nodes = ChunkIds(chunks)
             /\ knowledge_graph.pagerank = knowledge_graph.nodes
             /\ knowledge_graph.edges =
                   BuildCases(CaseOrder(chunks, 0), chunks, chunk_embeddings, NoEdges).edges


\* the chunk ids whose metadata gives a case_id, a visa_type and a category
Filed(cs) ==
    {i \in ChunkIds(cs) : /\ Given(cs[i + 1].metadata, "case_id")
                          /\ Given(cs[i + 1].metadata, "visa_type")
                          /\ Given(cs[i + 1].metadata, "category")}

\* the four nodes below the root on the path of chunk i
PathOf(cs, i) ==
    LET metadata == cs[i + 1].metadata
    IN <<CaseNode(metadata.case_id),
         VisaNode(metadata.case_id, metadata.visa_type),
         CategoryNode(metadata.case_id, metadata.visa_type, metadata.category),
         DocNode(metadata.case_id, metadata.visa_type, metadata.category, i)>>

\* what each of the four nodes of the path of chunk i stands for
AncestorsOf(cs, i) ==
    LET metadata == cs[i + 1].metadata
    IN <<<<metadata.case_id>>,
         <<metadata.case_id, metadata.visa_type>>,
         <<metadata.case_id, metadata.visa_type, metadata.category>>,
         <<metadata.case_id, metadata.visa_type, metadata.category, i>>>>

\* C23: after build_customer_tree the tree holds, for every chunk with a
\* case_id, a visa_type and a category, the path root -> case node -> visa
\* node -> category node -> document node; nodes that stand for different
\* ancestors are different nodes, every node but the root has exactly one
\* parent, and a rebuild from the same chunk store gives the same tree.
C23_TreePaths ==
    ret.op = "build_customer_tree" =>
        /\ \A i \in Filed(chunks) :
              LET path == PathOf(chunks, i)
              IN /\ <<"root", path[1]>> \in customer_tree.edges
                 /\ \A level \in 1..3 : <<path[level], path[level + 1]>> \in customer_tree.edges
        /\ \A i, j \in Filed(chunks) : \A level, other \in 1..4 :
              AncestorsOf(chunks, i)[level] # AncestorsOf(chunks, j)[other]
                  => PathOf(chunks, i)[level] # PathOf(chunks, j)[other]
        /\ \A node \in DOMAIN customer_tree.nodes \ {"root"} :
              Cardinality({edge \in customer_tree.edges : edge[2] = node}) = 1
        /\ BuiltTree(chunks) = customer_tree


----------------------------------------------------------------------------
(* Claims on the generation service *)

\* C25: a call of generate_text terminates; chat_completion is attempted at
\* most 3 times, no attempt follows one that succeeded, and when every
\* attempt failed generate_text returns an error text instead of raising.
C25_ServiceTerminates ==
    /\ [](/\ Len(llm.attempts) <= 3
          /\ \A i \in 1..(Len(llm.attempts) - 1) : llm.attempts[i] \in Failures
          /\ ~llm.raised
          /\ llm.pc = "done" =>
                /\ llm.result # PyNone
                /\ llm.attempts[Len(llm.attempts)] \in Failures =>
                      /\ Len(llm.attempts) = 3
                      /\ StartsWith(llm.result, "Error generating response: "))
    /\ (llm.pc # "idle" ~> llm.pc = "done")

\* a call that ended after three failed attempts, with the error text
C25_Witness ==
    /\ llm.pc = "done"
    /\ Len(llm.attempts) = 3
    /\ \A i \in 1..3 : llm.attempts[i] \in Failures
    /\ llm.result = ErrorText(RetryError(llm.attempts[3]))
    /\ ~llm.raised


----------------------------------------------------------------------------
(* Claims on concurrent use *)

\* C24: a step of retrieve_for_case is never taken while the other thread is
\* between the first and the last write of process_document or of
\* _build_knowledge_graph, so a retrieval never reads a chunk store that is
\* longer than the embedding index because an ingestion is in progress, nor a
\* graph that is cleared or partly built.
C24_NoRetrievalDuringRebuild ==
    [][threads'.retrieve.pc \in {"filtered", "returned"}
          /\ threads.retrieve.pc \in {"idle", "filtered"}
          /\ threads'.retrieve # threads.retrieve
              => threads.ingest.pc = "idle"]_vars


\* the positions of a string at which a given string occurs
Occurrences(s, t) ==
    {i \in 1..(Len(s) - Len(t) + 1) : SubSeq(s, i, i + Len(t) - 1) = t}

\* the heading line of each section of the letters generated here
HeadingLine(section) ==
    CASE section = "introduction" -> "## Introduction\n"
      [] section = "background" -> "## Background\n"
      [] section = "experience" -> "## Experience\n"
      [] section = "expert_opinion" -> "## Expert_opinion\n"
      [] section = "conclusion" -> "## Conclusion\n"
      [] OTHER -> "## ?\n"

\* C21: generate_letter uses the section list the registry lists for
\* (profession, visa_type), and the default list introduction, background,
\* experience, expert_opinion, conclusion exactly when the registry lists none;
\* the sections it generates are the list in order, each once (a leading part
\* of it when the run stops early), and the full letter of a run that returns
\* has exactly one heading per section, in the order of the list.
C21_SectionsInListOrder ==
    gret.op = "generate_letter" =>
        LET listed == ListedSections(templates, gret.call.profession, gret.call.visa_type)
            default == <<"introduction", "background", "experience", "expert_opinion",
                         "conclusion">>
        IN /\ listed # <<>> => gret.sections = listed
           /\ gret.sections = default <=> listed = <<>>
           /\ Len(gret.started) <= Len(gret.sections)
           /\ gret.started = SubSeq(gret.sections, 1, Len(gret.started))
           /\ \A i, j \in 1..Len(gret.started) :
                 gret.started[i] = gret.started[j] => i = j
           /\ gret.raised = "" =>
                 LET marks == Occurrences(gret.result.full_letter, "## ")
                     mark(k) == CHOOSE p \in marks :
                                    Cardinality({q \in marks : q < p}) = k - 1
                 IN /\ gret.started = gret.sections
                    /\ Cardinality(marks) = Len(gret.sections)
                    /\ \A k \in 1..Len(gret.sections) :
                          StartsWith(SubSeq(gret.result.full_letter, mark(k),
                                            Len(gret.result.full_letter)),
                                     HeadingLine(gret.sections[k]))

\* a letter of the registered sections and a letter of the default sections,
\* each generated to its end
C21_Witness ==
    /\ gret.op = "generate_letter"
    /\ gret.raised = ""
    /\ gret.sections = <<"introduction", "background", "experience", "expert_opinion",
                         "conclusion">>
    /\ Len(chunks) > 0

C21_WitnessListed ==
    /\ gret.op = "generate_letter"
    /\ gret.raised = ""
    /\ gret.sections = <<"background", "experience", "expert_opinion">>


\* the operations that only read the engine
ReadOperations == {"retrieve_for_case", "get_all_case_chunks", "get_case_metadata"}
GeneratorOperations == {"generate_section", "generate_letter"}

\* C22: generate_section, generate_letter, retrieve_for_case, get_all_case_chunks
\* and get_case_metadata leave the chunk store, the embedding index, the
\* knowledge graph, the keyword-chunk graph and the customer tree as they were.
C22_ReadOperationsLeaveEngine ==
    [][(\/ ret' # ret /\ ret'.op \in ReadOperations
        \/ gret' # gret /\ gret'.op \in GeneratorOperations)
       => /\ chunks' = chunks
          /\ chunk_embeddings' = chunk_embeddings
          /\ knowledge_graph' = knowledge_graph
          /\ keyword_chunk_graph' = keyword_chunk_graph
          /\ customer_tree' = customer_tree]_vars

\* the metadata of a case read from a filled store with a built tree, after
\* a letter was generated
C22_Witness ==
    /\ ret.op = "get_case_metadata"
    /\ ret.result.document_count = 0
    /\ ret.result.visa_types = {}
    /\ Len(chunks) > 0
    /\ Len(chunk_embeddings) = Len(chunks)
    /\ customer_tree # NoTree
    /\ knowledge_graph.nodes # {}
    /\ gret.op = "generate_letter"
    /\ gret.raised = ""


\* the run of generate_letter stopped before its last section
StoppedEarly ==
    /\ gret.op = "generate_letter"
    /\ gret.raised # ""

\* the parts of the sections the run completed are held as generated: content
ContentAsGenerated ==
    \A i \in 1..Len(gret.results) :
        \A k \in 1..Len(gret.part_contents[i]) :
            Get(Get(content, gret.sections[i], <<>>), gret.part_contents[i][k].key, PyNone)
                = gret.part_contents[i][k].value

\* and traceability
TraceabilityAsGenerated ==
    \A i \in 1..Len(gret.results) :
        \A k \in 1..Len(gret.part_contents[i]) :
            LET part == gret.part_contents[i][k].key
            IN /\ get_sources(gret.sections[i], part)
                     = Get(gret.results[i].source_mapping, part, <<>>)
               /\ get_letter_references(gret.sections[i], part)
                     = Get(gret.results[i].letter_examples_mapping, part, <<>>)

\* content and traceability of the sections the run did not complete are what
\* they were before the run
LaterSectionsUntouched ==
    \A i \in (Len(gret.results) + 1)..Len(gret.sections) :
        LET section == gret.sections[i]
        IN /\ Get(content, section, <<>>) = Get(gret.before.content, section, <<>>)
           /\ Traced(source_content_mapping, section, "")
                 = Traced(gret.before.source_content_mapping, section, "")
           /\ Traced(letter_refs_mapping, section, "")
                 = Traced(gret.before.letter_refs_mapping, section, "")
           /\ \A part \in Range(template_parts[section]) :
                 /\ Traced(source_content_mapping, section, part)
                       = Traced(gret.before.source_content_mapping, section, part)
                 /\ Traced(letter_refs_mapping, section, part)
                       = Traced(gret.before.letter_refs_mapping, section, part)

\* C26: when generate_letter stops after k sections (stopped between two
\* sections, or by a failure of section k+1), the content and the
\* traceability of the memory hold every part of the first k sections as this
\* run generated it, and hold for the later sections what they held before the
\* run.
C26_StoppedRunLeavesWholeSections ==
    StoppedEarly =>
        /\ ContentAsGenerated
        /\ TraceabilityAsGenerated
        /\ LaterSectionsUntouched

====
